---- MODULE Spec2Model ----
(***************************************************************************)
(* Model of the directory structure scanner of                             *)
(* teams/fix_migration_crew/tools/generate_tree.py: walk_dir and           *)
(* get_structure, the .gitignore reader, the project_structure.json cache  *)
(* and the file system they work on.                                       *)
(*                                                                         *)
(* Python strings are sequences of one-character strings, so that          *)
(* str.lower, str.strip, str.startswith, Path.suffix, Path.as_posix and    *)
(* the JSON writer and reader are computed as the library computes them.   *)
(***************************************************************************)
EXTENDS Integers, Sequences, FiniteSets, TLC

(***************************************************************************)
(* Characters.  Printable ASCII in code-point order, in two runs: codes 32 *)
(* to 95 and codes 97 to 126.  Ord is the code point.                      *)
(***************************************************************************)
AsciiLow ==
  << " ", "!", "\"", "#", "$", "%", "&", "'", "(", ")", "*", "+", ",", "-",
     ".", "/", "0", "1", "2", "3", "4", "5", "6", "7", "8", "9", ":", ";",
     "<", "=", ">", "?", "@", "A", "B", "C", "D", "E", "F", "G", "H", "I",
     "J", "K", "L", "M", "N", "O", "P", "Q", "R", "S", "T", "U", "V", "W",
     "X", "Y", "Z", "[", "\\", "]", "^", "_" >>

AsciiHigh ==
  << "a", "b", "c", "d", "e", "f", "g", "h", "i", "j", "k", "l", "m", "n",
     "o", "p", "q", "r", "s", "t", "u", "v", "w", "x", "y", "z", "{", "|",
     "}", "~" >>

IndexIn(table, c) == CHOOSE i \in 1..Len(table) : table[i] = c

AsciiChars ==
  { AsciiLow[i] : i \in 1..Len(AsciiLow) } \cup
  { AsciiHigh[i] : i \in 1..Len(AsciiHigh) }

\* Code points of the printable characters, and of tab, newline, return.
Ord ==
  [ c \in AsciiChars \cup {"\t", "\n", "\r"} |->
      IF c = "\t" THEN 9
      ELSE IF c = "\n" THEN 10
      ELSE IF c = "\r" THEN 13
      ELSE IF \E i \in 1..Len(AsciiLow) : AsciiLow[i] = c
           THEN 31 + IndexIn(AsciiLow, c)
           ELSE 96 + IndexIn(AsciiHigh, c) ]

\* str.lower on one character: the letters A to Z map to a to z, every
\* other character is kept.
LowerChar ==
  [ c \in DOMAIN Ord |->
      IF Ord[c] >= Ord["A"] /\ Ord[c] <= Ord["Z"]
      THEN AsciiHigh[Ord[c] - Ord["A"] + 1]
      ELSE c ]

\* str.lower
Lower(s) == [ i \in 1..Len(s) |-> LowerChar[s[i]] ]

\* Python's s < t on strings: lexicographic by code point.
RECURSIVE StrLess(_, _)
StrLess(s, t) ==
  IF t = << >> THEN FALSE
  ELSE IF s = << >> THEN TRUE
  ELSE IF s[1] # t[1] THEN Ord[s[1]] < Ord[t[1]]
  ELSE StrLess(Tail(s), Tail(t))

StrLeq(s, t) == s = t \/ StrLess(s, t)

\* The characters str.strip() removes.
Whitespace == { " ", "\t", "\n", "\r" }

RECURSIVE LStrip(_)
LStrip(s) ==
  IF s # << >> /\ s[1] \in Whitespace THEN LStrip(Tail(s)) ELSE s

RECURSIVE RStrip(_)
RStrip(s) ==
  IF s # << >> /\ s[Len(s)] \in Whitespace
  THEN RStrip(SubSeq(s, 1, Len(s) - 1)) ELSE s

\* str.strip
Strip(s) == RStrip(LStrip(s))

\* str.startswith
StartsWith(s, prefix) ==
  Len(s) >= Len(prefix) /\ SubSeq(s, 1, Len(prefix)) = prefix

\* The string s ends with the string t.
EndsWith(s, t) ==
  Len(t) <= Len(s) /\ SubSeq(s, Len(s) - Len(t) + 1, Len(s)) = t

\* Concatenation of a sequence of strings with a separator (sep.join).
RECURSIVE Join(_, _)
Join(parts, sep) ==
  IF parts = << >> THEN << >>
  ELSE IF Len(parts) = 1 THEN parts[1]
  ELSE parts[1] \o sep \o Join(Tail(parts), sep)

\* str.split(sep) for a one-character separator.
RECURSIVE Split(_, _)
Split(s, sep) ==
  IF \A i \in 1..Len(s) : s[i] # sep THEN << s >>
  ELSE LET k == CHOOSE i \in 1..Len(s) :
                   s[i] = sep /\ \A j \in 1..(i - 1) : s[j] # sep
       IN  << SubSeq(s, 1, k - 1) >> \o Split(SubSeq(s, k + 1, Len(s)), sep)

\* Largest index of character c in s, 0 when absent (str.rfind + 1).
RFind(s, c) ==
  IF \E i \in 1..Len(s) : s[i] = c
  THEN CHOOSE i \in 1..Len(s) : s[i] = c /\ \A j \in (i + 1)..Len(s) : s[j] # c
  ELSE 0

\* Suffix taking the part of the name from its first dot on.
Suffix_FromFirstDot(name) ==
  IF \E i \in 1..Len(name) : name[i] = "."
  THEN SubSeq(name,
              CHOOSE i \in 1..Len(name) :
                name[i] = "." /\ \A j \in 1..(i - 1) : name[j] # ".",
              Len(name))
  ELSE << >>

\* PurePath.suffix: the part of the name from its last dot on, when that dot
\* is neither the first nor the last character of the name; else "".
Suffix(name) ==
  LET i == RFind(name, ".")
  IN  IF 1 < i /\ i < Len(name) THEN SubSeq(name, i, Len(name)) ELSE << >>


(***************************************************************************)
(* Names of the file system entries the model uses.                        *)
(***************************************************************************)
N_proj == << "p", "r", "o", "j" >>
N_lnk == << "l", "n", "k" >>
N_nowhere == << "n", "o", "w", "h", "e", "r", "e" >>
N_src == << "s", "r", "c" >>
N_main_py == << "m", "a", "i", "n", ".", "p", "y" >>
N_pycache == << "_", "_", "p", "y", "c", "a", "c", "h", "e", "_", "_" >>
N_cache_pyc == << "c", "a", "c", "h", "e", ".", "p", "y", "c" >>
N_git == << ".", "g", "i", "t" >>
N_HEAD == << "H", "E", "A", "D" >>
N_README_md == << "R", "E", "A", "D", "M", "E", ".", "m", "d" >>
N_build == << "b", "u", "i", "l", "d" >>
N_build_output ==
  << "b", "u", "i", "l", "d", "_", "o", "u", "t", "p", "u", "t" >>
N_gitignore == << ".", "g", "i", "t", "i", "g", "n", "o", "r", "e" >>
N_project_structure_json ==
  << "p", "r", "o", "j", "e", "c", "t", "_", "s", "t", "r", "u", "c", "t",
     "u", "r", "e", ".", "j", "s", "o", "n" >>
N_DS_Store == << ".", "D", "S", "_", "S", "t", "o", "r", "e" >>
N_Build == << "B", "u", "i", "l", "d" >>
N_notes == << "n", "o", "t", "e", "s" >>
N_mod_pyc == << "m", "o", "d", ".", "p", "y", "c" >>
N_old_pyc == << "o", "l", "d", ".", "p", "y", "c" >>
N_archive_tar_gz ==
  << "a", "r", "c", "h", "i", "v", "e", ".", "t", "a", "r", ".", "g", "z" >>
N_star_gz == << "*", ".", "g", "z" >>
N_quote_backslash == << "a", "\"", "b", "\\", "c" >>
N_up == << "u", "p" >>
N_lib == << "l", "i", "b" >>

(***************************************************************************)
(* The file system.  A path is a sequence of names from "/".  The project  *)
(* directory /proj always exists; /lnk is a symbolic link to it; /nowhere  *)
(* does not exist.  fsys is the set of entries below /proj, each a record  *)
(* [p |-> absolute path, k |-> kind].  The kinds are "file", "dir",        *)
(* "noread" (a directory whose permissions refuse listing) and "link" (a   *)
(* symbolic link; the record then has a field to, the path it points to).  *)
(***************************************************************************)
ProjPath == << N_proj >>
LinkPath == << N_lnk >>
MissingPath == << N_nowhere >>
FilePath == << N_proj, N_README_md >>

\* Path.joinpath
JoinPath(path, name) == Append(path, name)

\* The path with the link /lnk followed.
ResolvePath(path) ==
  IF path # << >> /\ path[1] = N_lnk THEN ProjPath \o Tail(path) ELSE path

IsPrefix(a, b) == Len(a) <= Len(b) /\ SubSeq(b, 1, Len(a)) = a

\* The number of symbolic links the operating system follows while it
\* resolves one path, before it gives up with ELOOP (40 on Linux).
SymlinkLimit == 2

\* The kinds of entry that are directories.
DirKinds == { "dir", "noread" }

\* The path the operating system reaches from path by following the links
\* of fsys, the outermost first; << >> when it meets more than budget of
\* them (ELOOP).
RECURSIVE Follow(_, _, _)
Follow(fsys, path, budget) ==
  LET links == { e \in fsys : e.k = "link" /\ IsPrefix(e.p, path) }
  IN  IF links = {} THEN path
      ELSE IF budget = 0 THEN << >>
      ELSE LET e == CHOOSE x \in links : \A y \in links : Len(x.p) <= Len(y.p)
           IN  Follow(fsys, e.to \o SubSeq(path, Len(e.p) + 1, Len(path)),
                      budget - 1)

\* The directory or file a path names, with every symbolic link followed.
RealPath(fsys, path) ==
  IF \E e \in fsys : e.k = "link"
  THEN Follow(fsys, ResolvePath(path), SymlinkLimit)
  ELSE ResolvePath(path)

\* Path.is_dir and Path.is_file: both follow symbolic links and answer
\* False for a path that does not exist or that holds too many links.
IsDir(fsys, path) ==
  \/ ResolvePath(path) = ProjPath
  \/ \E e \in fsys : e.p = ResolvePath(path) /\ e.k \in DirKinds
  \/ /\ \E e \in fsys : e.k = "link"
     /\ \/ RealPath(fsys, path) = ProjPath
        \/ \E e \in fsys : e.p = RealPath(fsys, path) /\ e.k \in DirKinds

IsFile(fsys, path) ==
  \E e \in fsys : e.p = RealPath(fsys, path) /\ e.k = "file"

Exists(fsys, path) ==
  \/ ResolvePath(path) = ProjPath
  \/ \E e \in fsys : e.p = RealPath(fsys, path)

\* Path.name
PathName(path) == path[Len(path)]

\* Path.parent
Parent(path) == SubSeq(path, 1, Len(path) - 1)

RECURSIVE Reverse(_)
Reverse(s) == IF s = << >> THEN << >> ELSE Append(Reverse(Tail(s)), s[1])

\* The order in which the operating system lists a directory.  It is fixed
\* for a given directory content and unrelated to the names' alphabetical
\* order; the model lists by the reversed name.
ListedBefore(a, b) == StrLess(Reverse(PathName(a)), Reverse(PathName(b)))

RECURSIVE SetToListing(_)
SetToListing(paths) ==
  IF paths = {} THEN << >>
  ELSE LET first == CHOOSE a \in paths :
                      \A b \in paths \ {a} : ListedBefore(a, b)
       IN  << first >> \o SetToListing(paths \ {first})

\* IterDir leaving out the names that begin with a dot.
IterDir_SkipHidden(fsys, path) ==
  SetToListing({ JoinPath(path, PathName(e.p)) :
                   e \in { x \in fsys :
                             /\ Parent(x.p) = RealPath(fsys, path)
                             /\ PathName(x.p)[1] # "." } })

\* Path.iterdir: the direct children of a directory, in listing order.
IterDir(fsys, path) ==
  SetToListing({ JoinPath(path, PathName(e.p)) :
                   e \in { x \in fsys :
                             Parent(x.p) = RealPath(fsys, path) } })

\* os.scandir refuses to list the directory (PermissionError).
Unlistable(fsys, path) ==
  \E e \in fsys : e.k = "noread" /\ e.p = RealPath(fsys, path)

(***************************************************************************)
(* walk_dir                                                                *)
(***************************************************************************)
T_dir == << "d", "i", "r" >>
T_file == << "f", "i", "l", "e" >>
\* Ext_pyc naming the extension of optimised byte code instead.
Ext_pyc_AsPyo == << ".", "p", "y", "o" >>

Ext_pyc == << ".", "p", "y", "c" >>

\* The names walk_dir and get_structure always ignore.
DefaultIgnore == { N_pycache, N_DS_Store, N_git }

\* SortKeyLess comparing the names as they are, without lower().
SortKeyLess_CaseSensitive(fsys, a, b) ==
  IF IsDir(fsys, a) # IsDir(fsys, b)
  THEN IsDir(fsys, a)
  ELSE StrLess(PathName(a), PathName(b))

\* The sort key of line 75, (not p.is_dir(), p.name.lower()), compared as
\* Python compares tuples: False before True, then the strings.
SortKeyLess(fsys, a, b) ==
  IF IsDir(fsys, a) # IsDir(fsys, b)
  THEN IsDir(fsys, a)
  ELSE StrLess(Lower(PathName(a)), Lower(PathName(b)))

\* sorted(): a stable sort.  x goes behind every element whose key is not
\* greater than its own.
RECURSIVE InsertSorted(_, _, _)
InsertSorted(fsys, sorted, x) ==
  IF sorted = << >> THEN << x >>
  ELSE IF SortKeyLess(fsys, x, sorted[1]) THEN << x >> \o sorted
  ELSE << sorted[1] >> \o InsertSorted(fsys, Tail(sorted), x)

RECURSIVE SortedListing(_, _)
SortedListing(fsys, listing) ==
  IF listing = << >> THEN << >>
  ELSE InsertSorted(fsys,
                    SortedListing(fsys, SubSeq(listing, 1, Len(listing) - 1)),
                    listing[Len(listing)])

\* RelativeTo giving the entry's own name only (child.name).
RelativeTo_NameOnly(child, rp) == << PathName(child) >>

\* child.relative_to(root_path): the parts of child behind root_path.  The
\* caller checks IsPrefix first; Python raises ValueError otherwise.
RelativeTo(child, rp) == SubSeq(child, Len(rp) + 1, Len(child))

\* PurePath.as_posix; a path without parts is ".".
AsPosix(parts) == IF parts = << >> THEN << "." >> ELSE Join(parts, << "/" >>)

DirNode(rel, children) ==
  [ path |-> rel, type |-> T_dir, children |-> children ]

\* FileNode that also carries an empty children list.
FileNode_WithChildren(rel, ext) ==
  [ path |-> rel, type |-> T_file, extension |-> ext, children |-> << >> ]

FileNode(rel, ext) == [ path |-> rel, type |-> T_file, extension |-> ext ]

WalkOk(items, n) == [ exc |-> "", items |-> items, listings |-> n ]

WalkRaise(e, n) == [ exc |-> e, items |-> << >>, listings |-> n ]

\* IsIgnored comparing the names without regard to case.
IsIgnored_CaseInsensitive(name, ignore) ==
  \E e \in ignore : Lower(e) = Lower(name)

\* Line 76, child.name in ignore: equality of strings, character for
\* character.
IsIgnored(name, ignore) == name \in ignore

\* The number of nested calls of walk_dir the interpreter's recursion limit
\* leaves room for (sys.getrecursionlimit() is 1000 by default).
RecursionLimit == 4

\* walk_dir(path, ignore), reading the module-level root_path (rp), as its
\* depth-th nested call.  The result holds the list returned, the exception
\* raised instead ("" when none) and the number of directories listed.
\* Nothing in walk_dir catches an exception: a call beyond the recursion
\* limit and a directory that refuses to be listed end the whole walk.
RECURSIVE walk_dir(_, _, _, _, _)
RECURSIVE WalkChildren(_, _, _, _, _)
walk_dir(fsys, rp, path, ignore, depth) ==
  IF depth > RecursionLimit THEN WalkRaise("RecursionError", 0)
  ELSE IF Unlistable(fsys, path) THEN WalkRaise("PermissionError", 0)
  ELSE
    LET ig == IF ignore = {} THEN DefaultIgnore ELSE ignore
        r  == WalkChildren(fsys, rp,
                           SortedListing(fsys, IterDir(fsys, path)), ig, depth)
    IN  [ r EXCEPT !.listings = @ + 1 ]

\* The loop body of walk_dir over the sorted children still to visit.
WalkChildren(fsys, rp, children, ignore, depth) ==
  IF children = << >> THEN WalkOk(<< >>, 0)
  ELSE
    LET child == Head(children)
    IN  IF IsIgnored(PathName(child), ignore)
        THEN WalkChildren(fsys, rp, Tail(children), ignore, depth)
        ELSE IF ~IsPrefix(rp, child) THEN WalkRaise("ValueError", 0)
        ELSE
          LET rel_path == AsPosix(RelativeTo(child, rp))
              rest == WalkChildren(fsys, rp, Tail(children), ignore, depth)
          IN  IF IsDir(fsys, child)
              THEN LET sub == walk_dir(fsys, rp, child, ignore, depth + 1)
                   IN  IF sub.exc # "" THEN sub
                       ELSE IF rest.exc # ""
                       THEN WalkRaise(rest.exc, sub.listings + rest.listings)
                       ELSE WalkOk(<< DirNode(rel_path, sub.items) >>
                                     \o rest.items,
                                   sub.listings + rest.listings)
              ELSE IF Suffix(PathName(child)) = Ext_pyc THEN rest
              ELSE IF rest.exc # "" THEN rest
              ELSE WalkOk(<< FileNode(rel_path, Suffix(PathName(child))) >>
                            \o rest.items,
                          rest.listings)

(***************************************************************************)
(* JSON.  A document is a sequence of tokens; a string token holds the     *)
(* escaped text.  Indentation is not modelled.                             *)
(***************************************************************************)
Punct(t) == [ t |-> t, s |-> << >>, k |-> "" ]

KeyTok(k) == [ t |-> "key", s |-> << >>, k |-> k ]

\* Escape that leaves the backslash as it is.
RECURSIVE Escape_QuoteOnly(_)
Escape_QuoteOnly(s) ==
  IF s = << >> THEN << >>
  ELSE IF s[1] = "\"" THEN << "\\", s[1] >> \o Escape_QuoteOnly(Tail(s))
  ELSE << s[1] >> \o Escape_QuoteOnly(Tail(s))

\* The JSON writer escapes the quote and the backslash.
RECURSIVE Escape(_)
Escape(s) ==
  IF s = << >> THEN << >>
  ELSE IF s[1] \in { "\"", "\\" } THEN << "\\", s[1] >> \o Escape(Tail(s))
  ELSE << s[1] >> \o Escape(Tail(s))

RECURSIVE Unescape(_)
Unescape(s) ==
  IF s = << >> THEN << >>
  ELSE IF s[1] = "\\" /\ Len(s) >= 2
  THEN << s[2] >> \o Unescape(SubSeq(s, 3, Len(s)))
  ELSE << s[1] >> \o Unescape(Tail(s))

StrTok(s) == [ t |-> "str", s |-> Escape(s), k |-> "" ]

\* json.dump of the dict get_structure builds: keys in insertion order.
RECURSIVE DumpNodes(_)
RECURSIVE DumpNode(_)
RECURSIVE DumpList(_)
DumpNode(n) ==
  << Punct("{"), KeyTok("path"), Punct(":"), StrTok(n.path), Punct(","),
     KeyTok("type"), Punct(":"), StrTok(n.type), Punct(",") >>
  \o (IF n.type = T_dir
      THEN << KeyTok("children"), Punct(":") >> \o DumpNodes(n.children)
      ELSE << KeyTok("extension"), Punct(":"), StrTok(n.extension) >>)
  \o << Punct("}") >>

DumpList(nodes) ==
  IF nodes = << >> THEN << >>
  ELSE IF Len(nodes) = 1 THEN DumpNode(nodes[1])
  ELSE DumpNode(nodes[1]) \o << Punct(",") >> \o DumpList(Tail(nodes))

DumpNodes(nodes) == << Punct("[") >> \o DumpList(nodes) \o << Punct("]") >>

Dumps(tree) ==
  << Punct("{"), KeyTok("root"), Punct(":") >> \o DumpNodes(tree.root)
  \o << Punct("}") >>

\* json.load: objects become mappings from keys, arrays sequences, strings
\* their unescaped text.  ok is FALSE where the reader raises.
ParseFail == [ ok |-> FALSE, val |-> << >>, next |-> 0 ]

ParseOk(v, n) == [ ok |-> TRUE, val |-> v, next |-> n ]

EmptyObject == [ x \in {} |-> << >> ]

RECURSIVE ParseValue(_, _)
RECURSIVE ParseElems(_, _, _)
RECURSIVE ParseMembers(_, _, _)
ParseValue(toks, i) ==
  IF i > Len(toks) THEN ParseFail
  ELSE IF toks[i].t = "str" THEN ParseOk(Unescape(toks[i].s), i + 1)
  ELSE IF toks[i].t = "["
  THEN IF i + 1 <= Len(toks) /\ toks[i + 1].t = "]"
       THEN ParseOk(<< >>, i + 2)
       ELSE ParseElems(toks, i + 1, << >>)
  ELSE IF toks[i].t = "{"
  THEN IF i + 1 <= Len(toks) /\ toks[i + 1].t = "}"
       THEN ParseOk(EmptyObject, i + 2)
       ELSE ParseMembers(toks, i + 1, EmptyObject)
  ELSE ParseFail

\* The elements of an array from position i, behind those in acc.
ParseElems(toks, i, acc) ==
  LET v == ParseValue(toks, i)
  IN  IF ~v.ok \/ v.next > Len(toks) THEN ParseFail
      ELSE IF toks[v.next].t = "]"
      THEN ParseOk(Append(acc, v.val), v.next + 1)
      ELSE IF toks[v.next].t = ","
      THEN ParseElems(toks, v.next + 1, Append(acc, v.val))
      ELSE ParseFail

\* The members of an object from position i, added to those in acc; a
\* repeated key keeps its last value.
ParseMembers(toks, i, acc) ==
  IF i + 1 > Len(toks) \/ toks[i].t # "key" \/ toks[i + 1].t # ":"
  THEN ParseFail
  ELSE
    LET v == ParseValue(toks, i + 2)
    IN  IF ~v.ok \/ v.next > Len(toks) THEN ParseFail
        ELSE IF toks[v.next].t = "}"
        THEN ParseOk((toks[i].k :> v.val) @@ acc, v.next + 1)
        ELSE IF toks[v.next].t = ","
        THEN ParseMembers(toks, v.next + 1, (toks[i].k :> v.val) @@ acc)
        ELSE ParseFail

Loads(toks) ==
  LET v == ParseValue(toks, 1)
  IN  IF v.ok /\ v.next = Len(toks) + 1 THEN v ELSE ParseFail

(***************************************************************************)
(* get_structure                                                           *)
(***************************************************************************)
\* ParseIgnoreLines without line.strip().
ParseIgnoreLines_NoStrip(lines) ==
  { lines[i] : i \in 1..Len(lines) } \
    { e \in { lines[i] : i \in 1..Len(lines) } :
        e = << >> \/ StartsWith(e, << "#" >>) }

\* Lines 133-138: the entries a readable .gitignore contributes.
ParseIgnoreLines(lines) ==
  { Strip(lines[i]) : i \in 1..Len(lines) } \
    { e \in { Strip(lines[i]) : i \in 1..Len(lines) } :
        e = << >> \/ StartsWith(e, << "#" >>) }

\* The value of failsAfter for a file that is read to its end.
NoReadError == -1

\* Lines 127-141: ignore_set before the defaults are merged in, with the
\* file operations done and the diagnostics printed on the way.  The file
\* may refuse to open (readable is FALSE), or the read may raise after
\* failsAfter lines were delivered to the loop, as the decoder does on a
\* byte that is no UTF-8 in a later block of the file; the entries added
\* before the exception stay in ignore_set.
ReadGitignore(fsys, lines, readable, failsAfter, root, follow) ==
  IF follow /\ IsFile(fsys, JoinPath(root, N_gitignore))
  THEN IF ~readable
       THEN [ set |-> {},
              events |-> << "open .gitignore" >>,
              diags |-> { "cannot read .gitignore" } ]
       ELSE IF failsAfter = NoReadError
       THEN [ set |-> ParseIgnoreLines(lines),
              events |-> << "open .gitignore" >>, diags |-> {} ]
       ELSE [ set |-> ParseIgnoreLines(SubSeq(lines, 1, failsAfter)),
              events |-> << "open .gitignore" >>,
              diags |-> { "cannot read .gitignore" } ]
  ELSE [ set |-> {}, events |-> << >>, diags |-> {} ]

\* File permissions: read and write, read only, write only, none.
FileModes == { "rw", "r", "w", "none" }

ReadableModes == { "rw", "r" }

WritableModes == { "rw", "w" }

\* ReadCache with the test on force_regenerate inverted.
ReadCache_Inverted(fsys, text, mode, out_path, force) ==
  IF force /\ IsFile(fsys, out_path)
  THEN IF mode \in ReadableModes /\ Loads(text).ok
       THEN [ tried |-> TRUE, hit |-> TRUE, val |-> Loads(text).val,
              diags |-> {} ]
       ELSE [ tried |-> TRUE, hit |-> FALSE, val |-> << >>,
              diags |-> { "cannot read project_structure.json" } ]
  ELSE [ tried |-> FALSE, hit |-> FALSE, val |-> << >>, diags |-> {} ]

\* ReadCache that accepts the parsed document only when it is an object
\* with a non-empty root list, and regenerates otherwise.
ReadCache_Validated(fsys, text, mode, out_path, force) ==
  IF ~force /\ IsFile(fsys, out_path)
  THEN IF /\ mode \in ReadableModes /\ Loads(text).ok
          /\ Loads(text).val # << >>
          /\ Loads(text).val.root # << >>
       THEN [ tried |-> TRUE, hit |-> TRUE, val |-> Loads(text).val,
              diags |-> {} ]
       ELSE [ tried |-> TRUE, hit |-> FALSE, val |-> << >>,
              diags |-> { "cannot read project_structure.json" } ]
  ELSE [ tried |-> FALSE, hit |-> FALSE, val |-> << >>, diags |-> {} ]

\* ReadCache that answers an empty scan when the file cannot be loaded.
ReadCache_EmptyOnFailure(fsys, text, mode, out_path, force) ==
  IF ~force /\ IsFile(fsys, out_path)
  THEN IF mode \in ReadableModes /\ Loads(text).ok
       THEN [ tried |-> TRUE, hit |-> TRUE, val |-> Loads(text).val,
              diags |-> {} ]
       ELSE [ tried |-> TRUE, hit |-> TRUE, val |-> [ root |-> << >> ],
              diags |-> { "cannot read project_structure.json" } ]
  ELSE [ tried |-> FALSE, hit |-> FALSE, val |-> << >>, diags |-> {} ]

\* Lines 152-158: the attempt to answer from project_structure.json.
\* tried: the file was opened; hit: json.load returned a value.
ReadCache(fsys, text, mode, out_path, force) ==
  IF ~force /\ IsFile(fsys, out_path)
  THEN IF mode \in ReadableModes /\ Loads(text).ok
       THEN [ tried |-> TRUE, hit |-> TRUE, val |-> Loads(text).val,
              diags |-> {} ]
       ELSE [ tried |-> TRUE, hit |-> FALSE, val |-> << >>,
              diags |-> { "cannot read project_structure.json" } ]
  ELSE [ tried |-> FALSE, hit |-> FALSE, val |-> << >>, diags |-> {} ]

\* EffectiveIgnore with the defaults used only in place of an empty set,
\* as walk_dir's own "ignore or {...}" does.
EffectiveIgnore_OnlyWhenEmpty(ignore_set) ==
  IF ignore_set = {} THEN DefaultIgnore ELSE ignore_set

\* Lines 160-162: the defaults are always merged into ignore_set.
EffectiveIgnore(ignore_set) == ignore_set \cup DefaultIgnore

\* open(out_path, "w") succeeds on a writable regular file, or creates the
\* file in a writable directory.
CanOpenForWrite(fsys, mode, rootW, out_path) ==
  IF Exists(fsys, out_path)
  THEN IsFile(fsys, out_path) /\ mode \in WritableModes
  ELSE rootW

\* WriteResult that writes whether or not is_write_result is set.
WriteResult_Always(fsys, text, mode, rootW, out_path, tree, write, disk) ==
  IF ~CanOpenForWrite(fsys, mode, rootW, out_path)
  THEN [ fs |-> fsys, text |-> text, status |-> "failed",
         events |-> << "open project_structure.json for write" >>,
         diags |-> { "cannot write project_structure.json" }, exc |-> "" ]
  ELSE [ fs |-> fsys \cup { [ p |-> out_path, k |-> "file" ] },
         text |-> IF disk = "ok" THEN Dumps(tree)
                  ELSE SubSeq(Dumps(tree), 1, Len(Dumps(tree)) \div 2),
         status |-> IF disk = "ok" THEN "written" ELSE "failed",
         events |-> << "open project_structure.json for write" >>,
         diags |-> IF disk = "ok" THEN {}
                   ELSE { "cannot write project_structure.json" },
         exc |-> "" ]

\* WriteResult without the try/except: the error of open or json.dump
\* leaves the block.
WriteResult_Propagates(fsys, text, mode, rootW, out_path, tree, write, disk) ==
  IF ~write
  THEN [ fs |-> fsys, text |-> text, status |-> "not asked", events |-> << >>,
         diags |-> {}, exc |-> "" ]
  ELSE IF ~CanOpenForWrite(fsys, mode, rootW, out_path)
  THEN [ fs |-> fsys, text |-> text, status |-> "failed",
         events |-> << "open project_structure.json for write" >>,
         diags |-> {}, exc |-> "OSError" ]
  ELSE [ fs |-> fsys \cup { [ p |-> out_path, k |-> "file" ] },
         text |-> IF disk = "ok" THEN Dumps(tree)
                  ELSE SubSeq(Dumps(tree), 1, Len(Dumps(tree)) \div 2),
         status |-> IF disk = "ok" THEN "written" ELSE "failed",
         events |-> << "open project_structure.json for write" >>,
         diags |-> {},
         exc |-> IF disk = "ok" THEN "" ELSE "OSError" ]

\* WriteResult that removes the file when the write fails half way.
WriteResult_RemoveOnFailure(fsys, text, mode, rootW, out_path, tree, write, disk) ==
  IF ~write
  THEN [ fs |-> fsys, text |-> text, status |-> "not asked", events |-> << >>,
         diags |-> {}, exc |-> "" ]
  ELSE IF ~CanOpenForWrite(fsys, mode, rootW, out_path)
  THEN [ fs |-> fsys, text |-> text, status |-> "failed",
         events |-> << "open project_structure.json for write" >>,
         diags |-> { "cannot write project_structure.json" }, exc |-> "" ]
  ELSE IF disk = "ok"
  THEN [ fs |-> fsys \cup { [ p |-> out_path, k |-> "file" ] },
         text |-> Dumps(tree), status |-> "written",
         events |-> << "open project_structure.json for write" >>,
         diags |-> {}, exc |-> "" ]
  ELSE [ fs |-> fsys \ { [ p |-> out_path, k |-> "file" ] },
         text |-> << >>, status |-> "failed",
         events |-> << "open project_structure.json for write" >>,
         diags |-> { "cannot write project_structure.json" }, exc |-> "" ]

\* Lines 167-173: the file system and the file's text after the write.
\* disk = "full": the device fills up while json.dump writes, leaving the
\* first half of the document in the truncated file.  exc is the exception
\* that leaves the block: none, as "except Exception" catches the errors of
\* open and json.dump.
WriteResult(fsys, text, mode, rootW, out_path, tree, write, disk) ==
  IF ~write
  THEN [ fs |-> fsys, text |-> text, status |-> "not asked", events |-> << >>,
         diags |-> {}, exc |-> "" ]
  ELSE IF ~CanOpenForWrite(fsys, mode, rootW, out_path)
  THEN [ fs |-> fsys, text |-> text, status |-> "failed",
         events |-> << "open project_structure.json for write" >>,
         diags |-> { "cannot write project_structure.json" }, exc |-> "" ]
  ELSE [ fs |-> fsys \cup { [ p |-> out_path, k |-> "file" ] },
         text |-> IF disk = "ok" THEN Dumps(tree)
                  ELSE SubSeq(Dumps(tree), 1, Len(Dumps(tree)) \div 2),
         status |-> IF disk = "ok" THEN "written" ELSE "failed",
         events |-> << "open project_structure.json for write" >>,
         diags |-> IF disk = "ok" THEN {}
                   ELSE { "cannot write project_structure.json" },
         exc |-> "" ]

\* RootIsValid that only asks whether the path exists.
RootIsValid_Exists(fsys, rp) == Exists(fsys, rp)

\* Built-in exception classes with their base classes.
ExcBases ==
  [ ValueError |-> { "ValueError", "Exception" },
    NotADirectoryError |-> { "NotADirectoryError", "OSError", "Exception" } ]

\* root_path.is_dir() of line 148.
RootIsValid(fsys, rp) == IsDir(fsys, rp)

\* get_structure(root, is_follow_gitignore, force_regenerate,
\* is_write_result) on the file system fsys, whose .gitignore holds lines
\* and whose project_structure.json holds text.  The result describes the
\* whole call: how it ended, what it returned, the file operations in the
\* order they were made, the ignore set handed to walk_dir ({} when there
\* was no walk), and the file system it left.
get_structure(fsys, lines, readable, failsAfter, text, mode, rootW, root, follow, force, write, disk) ==
  LET gi       == ReadGitignore(fsys, lines, readable, failsAfter, root,
                                follow)
      rp       == ResolvePath(root)
      out_path == JoinPath(rp, N_project_structure_json)
      base     == [ root_path |-> rp, fs |-> fsys, text |-> text,
                    hit |-> FALSE, listings |-> 0, status |-> "not asked",
                    ignore |-> {} ]
  IN
  IF ~RootIsValid(fsys, rp)
  THEN base @@ [ outcome |-> "raised", exc |-> "ValueError",
                 result |-> << >>, events |-> gi.events, diags |-> gi.diags ]
  ELSE
    LET rc == ReadCache(fsys, text, mode, out_path, force)
        rcEvents == IF rc.tried
                    THEN << "open project_structure.json for read" >>
                    ELSE << >>
    IN
    IF rc.hit
    THEN [ base EXCEPT !.hit = TRUE ] @@
         [ outcome |-> "returned", exc |-> "", result |-> rc.val,
           events |-> gi.events \o rcEvents, diags |-> gi.diags \cup rc.diags ]
    ELSE
      LET ignore_set == EffectiveIgnore(gi.set)
          w == walk_dir(fsys, rp, rp, ignore_set, 1)
      IN
      IF w.exc # ""
      THEN [ base EXCEPT !.listings = w.listings, !.ignore = ignore_set ] @@
           [ outcome |-> "raised", exc |-> w.exc, result |-> << >>,
             events |-> gi.events \o rcEvents \o << "walk" >>,
             diags |-> gi.diags \cup rc.diags ]
      ELSE
        LET tree == [ root |-> w.items ]
            wr   == WriteResult(fsys, text, mode, rootW, out_path, tree,
                                write, disk)
        IN  [ root_path |-> rp, fs |-> wr.fs, text |-> wr.text,
              hit |-> FALSE, listings |-> w.listings, status |-> wr.status,
              ignore |-> ignore_set,
              outcome |-> IF wr.exc = "" THEN "returned" ELSE "raised",
              exc |-> wr.exc,
              result |-> IF wr.exc = "" THEN tree ELSE << >>,
              events |-> gi.events \o rcEvents \o << "walk" >> \o wr.events,
              diags |-> gi.diags \cup rc.diags \cup wr.diags ]

(***************************************************************************)
(* The state machine: a project directory that changes, and a caller of    *)
(* get_structure.                                                          *)
(***************************************************************************)
\* The number of changes made to the project directory from outside.
MaxFsChanges == 1

VARIABLES
  fs,                \* the entries below /proj
  gitignore,         \* the lines of /proj/.gitignore, << >> when absent
  gitignoreReadable, \* whether /proj/.gitignore can be opened for reading
  gitignoreFailsAfter, \* the lines read before the read raises, or NoReadError
  cacheText,         \* the text of /proj/project_structure.json
  cacheMode,         \* its permissions, one of FileModes
  rootWritable,      \* whether files can be created in /proj
  diskFull,          \* whether the device has no room for a document
  root_path,         \* the module-level variable of generate_tree.py
  last,              \* the call of get_structure that has just ended
  prev,              \* the call before it, when the caller made two in a row
  nChanges,          \* changes made from outside so far
  th,                \* the calls of get_structure running in threads
  srcText,           \* the text of /proj/src/project_structure.json
  argv,              \* the command line of generate_tree.py, sys.argv[1:]
  cli,               \* how parse_args ended on it
  tool,              \* the call of get_structure_tool that has just ended
  md,                \* the call of AdaptiveMarkdownWriter._run just ended
  written            \* the files AdaptiveMarkdownWriter has opened for writing

\* The state of the programs other than the single caller of get_structure.
extVars == << th, srcText, argv, cli, tool, md, written >>

vars == << fs, gitignore, gitignoreReadable, gitignoreFailsAfter, cacheText,
           cacheMode, rootWritable, diskFull, root_path, last, prev,
           nChanges, extVars >>

Entry(rel, k) == [ p |-> ProjPath \o rel, k |-> k ]

GitignorePath == JoinPath(ProjPath, N_gitignore)
CachePath == JoinPath(ProjPath, N_project_structure_json)

\* The project of the reference scenario.
ReferenceProject ==
  { Entry(<< N_src >>, "dir"),
    Entry(<< N_src, N_main_py >>, "file"),
    Entry(<< N_src, N_pycache >>, "dir"),
    Entry(<< N_src, N_pycache, N_cache_pyc >>, "file"),
    Entry(<< N_git >>, "dir"),
    Entry(<< N_git, N_HEAD >>, "file"),
    Entry(<< N_README_md >>, "file"),
    Entry(<< N_build >>, "dir"),
    Entry(<< N_build_output >>, "file"),
    Entry(<< N_gitignore >>, "file") }

\* Its .gitignore: "build", "# comment", "", "build_output".
ReferenceIgnoreLines ==
  << N_build \o << "\n" >>,
     << "#", " ", "c", "o", "m", "m", "e", "n", "t", "\n" >>,
     << "\n" >>,
     N_build_output >>

\* A project whose names differ from .gitignore entries by case only, hold
\* pattern characters, or end in ".pyc" while naming a directory.
VariedProject ==
  { Entry(<< N_Build >>, "dir"),
    Entry(<< N_Build, N_notes >>, "file"),
    Entry(<< N_mod_pyc >>, "dir"),
    Entry(<< N_mod_pyc, N_old_pyc >>, "file"),
    Entry(<< N_mod_pyc, N_archive_tar_gz >>, "file"),
    Entry(<< N_star_gz >>, "file"),
    Entry(<< N_gitignore >>, "file") }

\* Its .gitignore: "build", "*.gz", "!notes", "mod.pyc/", "Build/notes".
VariedIgnoreLines ==
  << N_build \o << "\n" >>,
     N_star_gz \o << "\n" >>,
     << "!" >> \o N_notes \o << "\n" >>,
     N_mod_pyc \o << "/", "\n" >>,
     N_Build \o << "/" >> \o N_notes \o << "\n" >> >>

\* Every entry that may appear in the project.
Universe ==
  ReferenceProject \cup
  { Entry(<< N_project_structure_json >>, "file"),
    Entry(<< N_project_structure_json >>, "dir"),
    Entry(<< N_DS_Store >>, "file"),
    Entry(<< N_src, N_git >>, "dir"),
    Entry(<< N_quote_backslash >>, "file") }

\* Texts an editor may give .gitignore.
GitignoreMenu ==
  { ReferenceIgnoreLines,
    << >>,
    << << " ", "s", "r", "c", " ", "\n" >>, << "#", "b", "u", "i", "l", "d" >> >>,
    << N_project_structure_json \o << "\n" >>, N_main_py \o << "\n" >>,
       N_notes >> }

\* Texts another program may leave in project_structure.json: an empty
\* file, the scan of an empty project, and a JSON array.
CacheMenu ==
  { << >>,
    Dumps([ root |-> << >> ]),
    << Punct("["), Punct("]") >> }

RootArgs == { ProjPath, LinkPath, MissingPath, FilePath }

NoCall == [ called |-> FALSE ]

\* No thread runs a call.
NoThreads == << >>

\* parse_args has not run.
NotRun == [ kind |-> "not run" ]

\* The other programs are not running.
ExtIdle ==
  /\ th = NoThreads /\ srcText = << >>
  /\ argv = << >> /\ cli = NotRun
  /\ tool = NoCall /\ md = NoCall /\ written = {}

Init ==
  /\ \/ fs = ReferenceProject /\ gitignore = ReferenceIgnoreLines
     \/ fs = VariedProject /\ gitignore = VariedIgnoreLines
  /\ gitignoreReadable = TRUE
  /\ gitignoreFailsAfter = NoReadError
  /\ cacheText = << >>
  /\ cacheMode = "rw"
  /\ rootWritable = TRUE
  /\ diskFull = FALSE
  /\ root_path = << >>
  /\ last = NoCall
  /\ prev = NoCall
  /\ nChanges = 0
  /\ ExtIdle

\* A call of get_structure, from its first line to its return or raise.
\* last.root is the root argument with its symbolic links followed.  The
\* caller makes a second call in a row only on that resolved root, and only
\* after a call that scanned the directory and was asked to write.
Call(root, follow, force, write) ==
  /\ ~prev.called
  /\ last.called =>
        /\ last.outcome = "returned" /\ ~last.hit /\ last.write
        /\ root = last.root
  /\ \E r \in { get_structure(fs, gitignore, gitignoreReadable,
                               gitignoreFailsAfter, cacheText,
                               cacheMode, rootWritable,
                               root, follow, force, write,
                               IF diskFull THEN "full" ELSE "ok") } :
         /\ fs' = r.fs
         /\ cacheText' = r.text
         /\ root_path' = r.root_path
         /\ last' = [ called |-> TRUE, root |-> ResolvePath(root),
                      follow |-> follow, force |-> force, write |-> write,
                      outcome |-> r.outcome, exc |-> r.exc,
                      result |-> r.result, hit |-> r.hit,
                      listings |-> r.listings, status |-> r.status,
                      events |-> r.events, diags |-> r.diags,
                      ignore |-> r.ignore,
                      fsBefore |-> fs, textBefore |-> cacheText ]
         /\ prev' = last
  /\ UNCHANGED << gitignore, gitignoreReadable, gitignoreFailsAfter,
                  cacheMode, rootWritable, diskFull, nChanges, extVars >>

\* The caller's process ends: the results it holds and the module's
\* root_path go with it.
Discard ==
  /\ last.called
  /\ last' = NoCall
  /\ prev' = NoCall
  /\ root_path' = << >>
  /\ UNCHANGED << fs, gitignore, gitignoreReadable, gitignoreFailsAfter,
                  cacheText, cacheMode, rootWritable, diskFull, nChanges,
                  extVars >>

\* Changes from outside happen between the caller's calls.
Outside ==
  /\ ~last.called
  /\ nChanges < MaxFsChanges
  /\ nChanges' = nChanges + 1
  /\ UNCHANGED << root_path, last, prev, extVars >>

\* A file or directory appears.
CreateEntry(e, lines, text) ==
  /\ Outside
  /\ e \in Universe
  /\ ~Exists(fs, e.p)
  /\ Exists(fs, Parent(e.p)) /\ IsDir(fs, Parent(e.p))
  /\ fs' = fs \cup { e }
  /\ gitignore' = IF e.p = GitignorePath THEN lines ELSE gitignore
  /\ cacheText' = IF e.p = CachePath /\ e.k = "file" THEN text ELSE cacheText
  /\ UNCHANGED << gitignoreReadable, gitignoreFailsAfter, cacheMode,
                  rootWritable, diskFull >>

\* A file or a directory with all it holds disappears.
RemoveEntry(e) ==
  /\ Outside
  /\ e \in fs
  /\ fs' = { x \in fs : ~IsPrefix(e.p, x.p) }
  /\ gitignore' = IF e.p = GitignorePath THEN << >> ELSE gitignore
  /\ gitignoreReadable' = IF e.p = GitignorePath THEN TRUE
                          ELSE gitignoreReadable
  /\ gitignoreFailsAfter' = IF e.p = GitignorePath THEN NoReadError
                            ELSE gitignoreFailsAfter
  /\ cacheText' = IF e.p = CachePath THEN << >> ELSE cacheText
  /\ cacheMode' = IF e.p = CachePath THEN "rw" ELSE cacheMode
  /\ UNCHANGED << rootWritable, diskFull >>

\* .gitignore is edited.
EditGitignore(lines) ==
  /\ Outside
  /\ IsFile(fs, GitignorePath)
  /\ lines # gitignore
  /\ gitignore' = lines
  /\ gitignoreFailsAfter' = NoReadError
  /\ UNCHANGED << fs, gitignoreReadable, cacheText, cacheMode, rootWritable,
                  diskFull >>

\* project_structure.json is overwritten by another program.
EditCache(text) ==
  /\ Outside
  /\ IsFile(fs, CachePath)
  /\ text # cacheText
  /\ cacheText' = text
  /\ UNCHANGED << fs, gitignore, gitignoreReadable, gitignoreFailsAfter,
                  cacheMode, rootWritable, diskFull >>

\* Permissions change.
ChmodGitignore ==
  /\ Outside
  /\ IsFile(fs, GitignorePath)
  /\ gitignoreReadable' = ~gitignoreReadable
  /\ UNCHANGED << fs, gitignore, gitignoreFailsAfter, cacheText, cacheMode,
                  rootWritable, diskFull >>

\* The bytes of .gitignore behind its first n lines are damaged: a read
\* delivers these lines and then raises.
DamageGitignore(n) ==
  /\ Outside
  /\ IsFile(fs, GitignorePath)
  /\ n \in 0..(Len(gitignore) - 1)
  /\ n # gitignoreFailsAfter
  /\ gitignoreFailsAfter' = n
  /\ UNCHANGED << fs, gitignore, gitignoreReadable, cacheText, cacheMode,
                  rootWritable, diskFull >>

ChmodCache(mode) ==
  /\ Outside
  /\ IsFile(fs, CachePath)
  /\ mode # cacheMode
  /\ cacheMode' = mode
  /\ UNCHANGED << fs, gitignore, gitignoreReadable, gitignoreFailsAfter,
                  cacheText, rootWritable, diskFull >>

ChmodRoot ==
  /\ Outside
  /\ rootWritable' = ~rootWritable
  /\ UNCHANGED << fs, gitignore, gitignoreReadable, gitignoreFailsAfter,
                  cacheText, cacheMode, diskFull >>

\* The device fills up, or room is made on it.
DiskChange ==
  /\ Outside
  /\ diskFull' = ~diskFull
  /\ UNCHANGED << fs, gitignore, gitignoreReadable, gitignoreFailsAfter,
                  cacheText, cacheMode, rootWritable >>

Next ==
  \/ \E root \in RootArgs, follow \in BOOLEAN, force \in BOOLEAN,
        write \in BOOLEAN :
       Call(root, follow, force, write)
  \/ Discard
  \/ \E e \in Universe :
       \E lines \in IF e.p = GitignorePath THEN GitignoreMenu ELSE { << >> } :
         \E text \in IF e.p = CachePath /\ e.k = "file" THEN CacheMenu
                     ELSE { << >> } :
           CreateEntry(e, lines, text)
  \/ \E e \in Universe : RemoveEntry(e)
  \/ \E lines \in GitignoreMenu : EditGitignore(lines)
  \/ \E text \in CacheMenu : EditCache(text)
  \/ ChmodGitignore
  \/ \E n \in 0..1 : DamageGitignore(n)
  \/ \E mode \in FileModes : ChmodCache(mode)
  \/ ChmodRoot
  \/ DiskChange

Spec == Init /\ [][Next]_vars

(***************************************************************************)
(* The same caller on a project that gains symbolic links and directories  *)
(* that refuse to be listed.                                               *)
(***************************************************************************)
\* The links that may appear: to the project directory from inside it and
\* from inside src, to the sibling directory src, and to nothing.
LinkMenu ==
  { [ p |-> ProjPath \o << N_up >>, k |-> "link", to |-> ProjPath ],
    [ p |-> ProjPath \o << N_src, N_up >>, k |-> "link", to |-> ProjPath ],
    [ p |-> ProjPath \o << N_lib >>, k |-> "link",
      to |-> ProjPath \o << N_src >> ],
    [ p |-> ProjPath \o << N_notes >>, k |-> "link", to |-> MissingPath ] }

\* A symbolic link is created.
Symlink(l) ==
  /\ Outside
  /\ ~(\E e \in fs : e.p = l.p)
  /\ IsDir(fs, Parent(l.p))
  /\ fs' = fs \cup { l }
  /\ UNCHANGED << gitignore, gitignoreReadable, gitignoreFailsAfter,
                  cacheText, cacheMode, rootWritable, diskFull >>

\* The paths of the directories a project may hold.
DirPaths == { e.p : e \in { x \in Universe \cup VariedProject : x.k = "dir" } }

\* The read permission of the directory at path is taken away or given
\* back.
ChmodDir(path) ==
  /\ Outside
  /\ \E e \in fs :
       /\ e.p = path /\ e.k \in DirKinds
       /\ fs' = (fs \ { e }) \cup
                  { [ e EXCEPT !.k = IF @ = "dir" THEN "noread" ELSE "dir" ] }
  /\ UNCHANGED << gitignore, gitignoreReadable, gitignoreFailsAfter,
                  cacheText, cacheMode, rootWritable, diskFull >>

NextWalk ==
  \/ \E root \in RootArgs, follow \in BOOLEAN, force \in BOOLEAN,
        write \in BOOLEAN :
       Call(root, follow, force, write)
  \/ Discard
  \/ \E l \in LinkMenu : Symlink(l)
  \/ \E path \in DirPaths : ChmodDir(path)

SpecWalk == Init /\ [][NextWalk]_vars

(***************************************************************************)
(* Properties.                                                             *)
(***************************************************************************)
\* The call c returned the result of a scan it made itself.
Fresh(c) == c.called /\ c.outcome = "returned" /\ ~c.hit

\* Every node of a list of nodes, at any depth.
RECURSIVE NodesOf(_)
NodesOf(items) ==
  UNION { { items[i] } \cup
          (IF items[i].type = T_dir THEN NodesOf(items[i].children) ELSE {}) :
          i \in 1..Len(items) }

\* The top-level list of a result and the children list of each directory.
ListsOf(tree) ==
  { tree.root } \cup
  { n.children : n \in { m \in NodesOf(tree.root) : m.type = T_dir } }

\* The names on the way from the root to a node, the node's own name last.
Segments(node) == Split(node.path, "/")

NodeName(node) == Segments(node)[Len(Segments(node))]

\* The ignore set a scan of the project uses now, as the names taken from
\* .gitignore plus the built-in ones.
IgnoreSetNow(follow) ==
  EffectiveIgnore(ReadGitignore(fs, gitignore, gitignoreReadable,
                                gitignoreFailsAfter, ProjPath, follow).set)

\* The caller made two calls in a row, each a forced scan that returned and
\* was asked to write, with the same is_follow_gitignore.
TwoForcedScans ==
  /\ prev.called /\ last.called
  /\ Fresh(prev) /\ Fresh(last)
  /\ prev.force /\ last.force
  /\ prev.write /\ last.write
  /\ prev.follow = last.follow

ScanThenReuse ==
  /\ prev.called /\ last.called
  /\ Fresh(prev) /\ prev.write
  /\ ~last.force

ReferenceScan ==
  /\ Fresh(last)
  /\ last.follow
  /\ last.fsBefore = ReferenceProject
  /\ gitignore = ReferenceIgnoreLines
  /\ gitignoreReadable
  /\ gitignoreFailsAfter = NoReadError

SrcNode ==
  DirNode(N_src, << FileNode(N_src \o << "/" >> \o N_main_py,
                             << ".", "p", "y" >>) >>)

ReadmeNode == FileNode(N_README_md, << ".", "m", "d" >>)

\* C3 as stated: the scan of the reference project returns exactly src
\* (with src/main.py) and README.md.
C3_ReferenceTwoNodes ==
  ReferenceScan => last.result = [ root |-> << SrcNode, ReadmeNode >> ]

\* C3 amended: the scan of the reference project returns exactly src (with
\* src/main.py), .gitignore (a file with extension "") and README.md, in
\* this order.
C3_ReferenceThreeNodes ==
  ReferenceScan =>
    last.result =
      [ root |-> << SrcNode, FileNode(N_gitignore, << >>), ReadmeNode >> ]

C3_Witness == ReferenceScan /\ Len(last.result.root) = 3

\* C4: no node of a scan is named .git, __pycache__ or .DS_Store or lies
\* below an entry of such a name, whatever is_follow_gitignore and
\* .gitignore are.
C4_BuiltinExclusion ==
  Fresh(last) =>
    \A n \in NodesOf(last.result.root) :
      \A i \in 1..Len(Segments(n)) : Segments(n)[i] \notin DefaultIgnore

\* A scan that took names from .gitignore, of a project holding .git and,
\* one level down, __pycache__ with a file in it.
C4_Witness ==
  /\ Fresh(last)
  /\ last.follow
  /\ ParseIgnoreLines(gitignore) # {}
  /\ gitignoreReadable
  /\ gitignoreFailsAfter = NoReadError
  /\ IsFile(last.fsBefore, GitignorePath)
  /\ IsDir(last.fsBefore, << N_proj, N_git >>)
  /\ IsFile(last.fsBefore, << N_proj, N_src, N_pycache, N_cache_pyc >>)
  /\ \E n \in NodesOf(last.result.root) : Len(Segments(n)) = 2

\* The list has its directories first and, among the directories and among
\* the files, the lower-cased names in non-decreasing order.
Ordered(list) ==
  \A i, j \in 1..Len(list) :
    i < j =>
      /\ ~(list[i].type = T_file /\ list[j].type = T_dir)
      /\ list[i].type = list[j].type =>
           StrLeq(Lower(NodeName(list[i])), Lower(NodeName(list[j])))

\* C5: the top-level list and every children list of a scan are ordered.
C5_Ordering ==
  Fresh(last) => \A list \in ListsOf(last.result) : Ordered(list)

\* A scan whose top-level list holds README.md behind build_output, which
\* the order of the code points would put before it.
C5_Witness ==
  /\ Fresh(last)
  /\ \E i, j \in 1..Len(last.result.root) :
       /\ i < j
       /\ last.result.root[i].path = N_build_output
       /\ last.result.root[j].path = N_README_md
  /\ \E i \in 1..Len(last.result.root) : last.result.root[i].type = T_dir

\* The entry a node stands for was in the project when the call began.
NodeExists(c, n) ==
  \E e \in c.fsBefore :
    /\ e.p = c.root \o Segments(n)
    /\ e.k = IF n.type = T_dir THEN "dir" ELSE "file"

\* The path of every node of the list is the parent's path (none at the top
\* level) joined by "/" with one name, and so on below.
RECURSIVE PathsJoined(_, _)
PathsJoined(parentSegments, list) ==
  \A i \in 1..Len(list) :
    /\ Len(Segments(list[i])) = Len(parentSegments) + 1
    /\ SubSeq(Segments(list[i]), 1, Len(parentSegments)) = parentSegments
    /\ list[i].path = AsPosix(Append(parentSegments, NodeName(list[i])))
    /\ list[i].type = T_dir =>
         PathsJoined(Segments(list[i]), list[i].children)

\* C6: every path of a scan is relative, has no ".." segment, names an
\* entry below the resolved root and is the parent's path joined with the
\* entry's own name.
C6_PathInvariant ==
  Fresh(last) =>
    /\ \A n \in NodesOf(last.result.root) :
         /\ n.path # << >> /\ n.path[1] # "/"
         /\ \A i \in 1..Len(Segments(n)) :
              Segments(n)[i] \notin { << >>, << ".", "." >> }
         /\ NodeExists(last, n)
    /\ PathsJoined(<< >>, last.result.root)

\* A scan that returned a node two levels down.
C6_Witness ==
  /\ Fresh(last)
  /\ \E n \in NodesOf(last.result.root) :
       n.path = N_src \o << "/" >> \o N_main_py

\* The root of the call is no directory.
InvalidRoot(c) == c.called /\ ~IsDir(c.fsBefore, c.root)

\* What an invalid root must leave alone: no directory listed, no write
\* tried, the project and project_structure.json as they were.
NothingDone(c) ==
  /\ c.listings = 0
  /\ \A i \in 1..Len(c.events) :
       c.events[i] # "open project_structure.json for write"
  /\ fs = c.fsBefore
  /\ cacheText = c.textBefore

\* C7 as stated: a root that is no directory makes the call raise an error
\* of the class NotADirectoryError, walk nothing and write nothing.
C7_RaisesNotADirectoryError ==
  InvalidRoot(last) =>
    /\ last.outcome = "raised"
    /\ "NotADirectoryError" \in ExcBases[last.exc]
    /\ NothingDone(last)

\* C7 amended: a root that is no directory makes the call raise ValueError,
\* which is no NotADirectoryError, walk nothing and write nothing.
C7_RaisesValueError ==
  InvalidRoot(last) =>
    /\ last.outcome = "raised"
    /\ last.exc = "ValueError"
    /\ "NotADirectoryError" \notin ExcBases[last.exc]
    /\ NothingDone(last)

\* A call on a regular file with every flag set, in a project that holds
\* project_structure.json.
C7_Witness ==
  /\ InvalidRoot(last)
  /\ last.root = FilePath
  /\ last.follow /\ last.force /\ last.write
  /\ IsFile(fs, CachePath)

\* The call may answer from project_structure.json: force_regenerate is
\* false, the root is a directory, the file is there, readable, and parses.
CacheUsable(c) ==
  /\ c.called /\ ~c.force
  /\ IsDir(c.fsBefore, c.root)
  /\ IsFile(c.fsBefore, CachePath)
  /\ cacheMode \in ReadableModes
  /\ Loads(c.textBefore).ok

\* C8: such a call returns what the file parses to, whatever the project
\* holds now, and leaves the file as it is.
C8_CacheVerbatim ==
  CacheUsable(last) =>
    /\ last.outcome = "returned"
    /\ last.result = Loads(last.textBefore).val
    /\ last.listings = 0
    /\ cacheText = last.textBefore
    /\ fs = last.fsBefore

\* A call asked to write that answered an empty scan from the file while
\* the project holds README.md.
C8_Witness ==
  /\ CacheUsable(last)
  /\ last.write
  /\ last.result = [ root |-> << >> ]
  /\ IsFile(fs, << N_proj, N_README_md >>)

\* C9: a call answered from project_structure.json does not open
\* .gitignore.
C9_CacheHitSkipsGitignore ==
  (last.called /\ last.hit) =>
    /\ \A i \in 1..Len(last.events) : last.events[i] # "open .gitignore"
    /\ "cannot read .gitignore" \notin last.diags

\* The call finds project_structure.json but cannot load it.
CacheUnusable(c) ==
  /\ c.called /\ ~c.force
  /\ IsDir(c.fsBefore, c.root)
  /\ IsFile(c.fsBefore, CachePath)
  /\ ~(cacheMode \in ReadableModes /\ Loads(c.textBefore).ok)

\* What the call c would have returned with force_regenerate true.
ForcedResult(c) ==
  get_structure(c.fsBefore, gitignore, gitignoreReadable,
                gitignoreFailsAfter, c.textBefore, cacheMode, rootWritable,
                c.root, c.follow, TRUE, FALSE, "ok").result

Written(c) == Fresh(c) /\ c.write /\ c.status = "written"

\* C11: after a scan that was asked to write and whose write succeeded,
\* project_structure.json is a file whose text parses to the result the
\* call returned, whatever the file held before.
C11_WriteThrough ==
  Written(last) =>
    /\ IsFile(fs, CachePath)
    /\ Loads(cacheText).ok
    /\ Loads(cacheText).val = last.result

\* A scan that replaced the document of an earlier scan by one that holds a
\* name with a quote and a backslash.
C11_Witness ==
  /\ Written(last)
  /\ Loads(last.textBefore).ok
  /\ Loads(last.textBefore).val # last.result
  /\ \E i \in 1..Len(last.result.root) :
       last.result.root[i].path = N_quote_backslash

\* The call c was asked to write and the open or the write failed.
WriteFailed(c) == c.called /\ c.write /\ c.status = "failed"

\* The permissions that differ from mode by allowing the write only.
WithWritePermission(mode) == IF mode \in ReadableModes THEN "rw" ELSE "w"

\* The call c again, on the project as c found it, with the file and the
\* directory writable and room on the device.
HadWriteSucceeded(c) ==
  get_structure(c.fsBefore, gitignore, gitignoreReadable,
                gitignoreFailsAfter, c.textBefore,
                WithWritePermission(cacheMode), TRUE,
                c.root, c.follow, c.force, TRUE, "ok")

\* C12: a call whose write fails raises nothing and returns the scan it
\* made, which is what it returns when the write succeeds.
C12_WriteFailureNonFatal ==
  WriteFailed(last) =>
    /\ last.outcome = "returned"
    /\ ~last.hit
    /\ last.result = HadWriteSucceeded(last).result

\* A write that failed where it would have succeeded with the permission
\* to write: the call returned a scan that is not empty, and a diagnostic
\* was printed.
C12_Witness ==
  /\ WriteFailed(last)
  /\ HadWriteSucceeded(last).status = "written"
  /\ last.outcome = "returned"
  /\ last.result.root # << >>
  /\ "cannot write project_structure.json" \in last.diags

\* No event of the call c is an open of project_structure.json for writing.
NoWriteTried(c) ==
  \A i \in 1..Len(c.events) :
    c.events[i] # "open project_structure.json for write"

\* C13: a call with is_write_result false leaves every entry of the project
\* and the text of project_structure.json as they were, whatever
\* force_regenerate is and whether or not the file exists; with
\* force_regenerate false it opens a file that is there and answers from it
\* when it can be loaded.
C13_NoWriteWhenNotRequested ==
  (last.called /\ ~last.write) =>
    /\ fs = last.fsBefore
    /\ cacheText = last.textBefore
    /\ NoWriteTried(last)
    /\ last.status = "not asked"
    /\ CacheUsable(last) =>
         /\ last.hit
         /\ last.result = Loads(last.textBefore).val

\* A forced scan without writing, in a project that holds no
\* project_structure.json and whose directory is writable.
C13_Witness ==
  /\ last.called /\ ~last.write /\ last.force
  /\ Fresh(last)
  /\ ~Exists(fs, CachePath)
  /\ rootWritable /\ ~diskFull
  /\ last.result.root # << >>

\* Reading .gitignore fails now: the open is refused, or the read raises
\* part way.
GitignoreReadFails ==
  ~gitignoreReadable \/ gitignoreFailsAfter # NoReadError

\* The call c scanned with is_follow_gitignore true a project whose
\* .gitignore is a file that cannot be read.
ScannedWithUnreadableGitignore(c) ==
  /\ c.called /\ c.follow /\ ~c.hit
  /\ IsDir(c.fsBefore, c.root)
  /\ IsFile(c.fsBefore, JoinPath(c.root, N_gitignore))
  /\ GitignoreReadFails

\* The scan of the project as the call c found it, with the built-in
\* ignore names only.
BuiltinOnlyScan(c) ==
  [ root |-> walk_dir(c.fsBefore, c.root, c.root, DefaultIgnore, 1).items ]

\* C14: a scan of a project whose .gitignore cannot be read raises nothing,
\* takes no name from the file, and returns the scan made with the built-in
\* ignore names only.
C14_UnreadableGitignoreSkipped ==
  ScannedWithUnreadableGitignore(last) =>
    /\ last.outcome = "returned"
    /\ last.ignore = DefaultIgnore
    /\ last.result = BuiltinOnlyScan(last)

\* The whitespace-trimmed lines that are not empty and do not start with
\* "#".
TrimmedEntries(lines) ==
  { e \in { Strip(lines[i]) : i \in 1..Len(lines) } :
      e # << >> /\ e[1] # "#" }

\* The ignore set the call c is to use: the built-in names and, when
\* is_follow_gitignore is true and .gitignore directly below the root is a
\* file that can be read, its trimmed entries.
ExpectedIgnore(c) ==
  DefaultIgnore \cup
  (IF /\ c.follow
      /\ IsFile(c.fsBefore, JoinPath(c.root, N_gitignore))
      /\ ~GitignoreReadFails
   THEN TrimmedEntries(gitignore)
   ELSE {})

\* C15: every scan excludes by the built-in names united with the trimmed
\* entries of a readable .gitignore below the root when is_follow_gitignore
\* is true, and by the built-in names alone otherwise.
C15_EffectiveIgnoreSet ==
  Fresh(last) => last.ignore = ExpectedIgnore(last)

\* The names from the root of the call c down to the entry e.
RelativeNames(c, e) == SubSeq(e.p, Len(c.root) + 1, Len(e.p))

\* The result of the call c holds a node for the entry e.
HasNode(c, e) ==
  \E n \in NodesOf(c.result.root) :
    /\ Segments(n) = RelativeNames(c, e)
    /\ n.type = IF e.k = "dir" THEN T_dir ELSE T_file

\* No name on the way from the root to the entry e, its own included, is
\* equal to an entry of the ignore set of the call c.
NoNameIgnored(c, e) ==
  \A i \in 1..Len(RelativeNames(c, e)) :
    \A x \in c.ignore : RelativeNames(c, e)[i] # x

\* C16: a scan holds a node for exactly those entries of the project that
\* are no ".pyc" file and that neither bear a name equal, character for
\* character, to an ignore set entry nor lie below a directory that does.
C16_ExactNameMatching ==
  Fresh(last) =>
    \A e \in last.fsBefore :
      HasNode(last, e) <=>
        /\ NoNameIgnored(last, e)
        /\ ~(e.k = "file" /\ Suffix(PathName(e.p)) = Ext_pyc)

\* A scan under the entries "build", "*.gz", "!notes", "mod.pyc/" and
\* "Build/notes" that kept Build, Build/notes, mod.pyc and
\* mod.pyc/archive.tar.gz and removed only the file named "*.gz".
C16_Witness ==
  /\ Fresh(last)
  /\ ParseIgnoreLines(VariedIgnoreLines) \subseteq last.ignore
  /\ VariedProject \subseteq last.fsBefore
  /\ HasNode(last, Entry(<< N_Build >>, "dir"))
  /\ HasNode(last, Entry(<< N_Build, N_notes >>, "file"))
  /\ HasNode(last, Entry(<< N_mod_pyc >>, "dir"))
  /\ HasNode(last, Entry(<< N_mod_pyc, N_archive_tar_gz >>, "file"))
  /\ ~HasNode(last, Entry(<< N_star_gz >>, "file"))

\* The name ends in ".pyc" behind at least one other character.
EndsInDotPyc(name) ==
  /\ Len(name) > 4
  /\ SubSeq(name, Len(name) - 3, Len(name)) = << ".", "p", "y", "c" >>

\* C17: no file node of a scan has the extension ".pyc" or stands for a
\* file whose name ends in ".pyc"; a directory of such a name that the
\* ignore set does not exclude has a node, and so has each entry in it that
\* is not excluded itself.
C17_PycSkip ==
  Fresh(last) =>
    /\ \A n \in NodesOf(last.result.root) :
         n.type = T_file =>
           /\ n.extension # << ".", "p", "y", "c" >>
           /\ ~EndsInDotPyc(NodeName(n))
    /\ \A e \in last.fsBefore :
         (e.k = "dir" /\ EndsInDotPyc(PathName(e.p)) /\ NoNameIgnored(last, e))
         => /\ HasNode(last, e)
            /\ \A x \in last.fsBefore :
                 ( /\ Parent(x.p) = e.p
                   /\ NoNameIgnored(last, x)
                   /\ ~(x.k = "file" /\ EndsInDotPyc(PathName(x.p))) )
                 => HasNode(last, x)

\* A scan of a project with the directory mod.pyc holding old.pyc and
\* archive.tar.gz: the directory and archive.tar.gz have nodes, old.pyc has
\* none.
C17_Witness ==
  /\ Fresh(last)
  /\ Entry(<< N_mod_pyc, N_old_pyc >>, "file") \in last.fsBefore
  /\ HasNode(last, Entry(<< N_mod_pyc >>, "dir"))
  /\ HasNode(last, Entry(<< N_mod_pyc, N_archive_tar_gz >>, "file"))
  /\ ~HasNode(last, Entry(<< N_mod_pyc, N_old_pyc >>, "file"))

\* The value is a sequence.
IsSequence(v) == v = << >> \/ DOMAIN v = 1..Len(v)

\* C18: every node of a scan is of type "dir" with exactly the keys path,
\* type and children, children being a sequence, or of type "file" with
\* exactly the keys path, type and extension.
C18_NodeShape ==
  Fresh(last) =>
    \A n \in NodesOf(last.result.root) :
      \/ /\ n.type = T_dir
         /\ DOMAIN n = { "path", "type", "children" }
         /\ IsSequence(n.children)
      \/ /\ n.type = T_file
         /\ DOMAIN n = { "path", "type", "extension" }

\* A scan with a directory node without children, a directory node with a
\* child, and a file node whose extension is empty.
C18_Witness ==
  /\ Fresh(last)
  /\ \E n \in NodesOf(last.result.root) :
       n.type = T_dir /\ n.children = << >>
  /\ \E n \in NodesOf(last.result.root) :
       n.type = T_dir /\ n.children # << >>
  /\ \E n \in NodesOf(last.result.root) :
       n.type = T_file /\ n.extension = << >>

\* ext is the final suffix of name: empty, when no dot of the name has
\* characters on both sides and only other characters behind it, and else
\* the end of the name from that dot on.
IsFinalSuffix(ext, name) ==
  IF \E i \in 2..(Len(name) - 1) :
       name[i] = "." /\ \A j \in (i + 1)..Len(name) : name[j] # "."
  THEN /\ Len(ext) >= 2 /\ Len(ext) < Len(name)
       /\ ext[1] = "."
       /\ \A j \in 2..Len(ext) : ext[j] # "."
       /\ SubSeq(name, Len(name) - Len(ext) + 1, Len(name)) = ext
  ELSE ext = << >>

\* C19: the extension of every file node of a scan is the final suffix of
\* the file's name with its dot, or empty; for notes it is empty, for
\* archive.tar.gz it is ".gz", for .gitignore it is empty.
C19_ExtensionHandling ==
  Fresh(last) =>
    \A n \in NodesOf(last.result.root) :
      n.type = T_file =>
        /\ IsFinalSuffix(n.extension, NodeName(n))
        /\ NodeName(n) = N_notes => n.extension = << >>
        /\ NodeName(n) = N_archive_tar_gz => n.extension = << ".", "g", "z" >>
        /\ NodeName(n) = N_gitignore => n.extension = << >>

\* A scan that holds file nodes for notes, archive.tar.gz and .gitignore.
C19_Witness ==
  /\ Fresh(last)
  /\ \E n \in NodesOf(last.result.root) :
       n.type = T_file /\ NodeName(n) = N_notes
  /\ \E n \in NodesOf(last.result.root) :
       n.type = T_file /\ NodeName(n) = N_archive_tar_gz
  /\ \E n \in NodesOf(last.result.root) :
       n.type = T_file /\ NodeName(n) = N_gitignore

\* The value is a sequence of Tree Nodes: directory nodes with path, type
\* and children, themselves such a sequence, and file nodes with path, type
\* and extension.
RECURSIVE IsTreeNodes(_)
IsTreeNodes(v) ==
  /\ IsSequence(v)
  /\ \A i \in 1..Len(v) :
       \/ /\ DOMAIN v[i] = { "path", "type", "children" }
          /\ v[i].type = T_dir
          /\ IsTreeNodes(v[i].children)
       \/ /\ DOMAIN v[i] = { "path", "type", "extension" }
          /\ v[i].type = T_file

\* The value is a Scan Result: a mapping with the one key root, whose value
\* is a sequence of Tree Nodes.
IsScanResult(v) ==
  /\ DOMAIN v = { "root" }
  /\ IsTreeNodes(v.root)

\* C20: every call that returns, from a scan or from
\* project_structure.json, returns a Scan Result.
C20_ResultShape ==
  (last.called /\ last.outcome = "returned") => IsScanResult(last.result)

(***************************************************************************)
(* Two calls of get_structure in two threads of one process.  The threads  *)
(* share the module-level root_path and the files; each has its own        *)
(* arguments and local variables.  A thread runs one call in steps, each   *)
(* step holding at most one read or write of root_path or of a file.       *)
(***************************************************************************)
Threads == { 1, 2 }

SrcPath == ProjPath \o << N_src >>

\* The project the threads scan; its .gitignore holds "README.md".
ThreadProject ==
  { Entry(<< N_src >>, "dir"),
    Entry(<< N_src, N_main_py >>, "file"),
    Entry(<< N_README_md >>, "file"),
    Entry(<< N_gitignore >>, "file") }

ThreadIgnoreLines == << N_README_md \o << "\n" >> >>

\* The calls a thread may make.
ThreadCalls ==
  { [ root |-> ProjPath, follow |-> TRUE, force |-> TRUE, write |-> TRUE ],
    [ root |-> ProjPath, follow |-> FALSE, force |-> TRUE, write |-> TRUE ],
    [ root |-> ProjPath, follow |-> TRUE, force |-> FALSE, write |-> FALSE ],
    [ root |-> SrcPath, follow |-> TRUE, force |-> TRUE, write |-> FALSE ] }

NewThread ==
  [ pc |-> "idle", root |-> << >>, follow |-> FALSE, force |-> FALSE,
    write |-> FALSE, ignore_set |-> {}, out_path |-> << >>,
    walk_root |-> << >>, tree |-> << >>, off |-> 0, outcome |-> "",
    exc |-> "", result |-> << >>, hit |-> FALSE, status |-> "not asked",
    alone |-> << >>, readDuring |-> FALSE, replaced |-> << >> ]

InitThreads ==
  /\ fs \in { ThreadProject,
               ThreadProject \cup
                 { Entry(<< N_project_structure_json >>, "file") } }
  /\ gitignore = ThreadIgnoreLines
  /\ gitignoreReadable = TRUE
  /\ gitignoreFailsAfter = NoReadError
  /\ cacheText = IF IsFile(fs, CachePath) THEN Dumps([ root |-> << >> ])
                 ELSE << >>
  /\ cacheMode = "rw"
  /\ rootWritable = TRUE
  /\ diskFull = FALSE
  /\ root_path = << >>
  /\ last = NoCall
  /\ prev = NoCall
  /\ nChanges = 0
  /\ th = [ t \in Threads |-> NewThread ]
  /\ srcText = << >>
  /\ argv = << >> /\ cli = NotRun
  /\ tool = NoCall /\ md = NoCall /\ written = {}

\* The text of the project_structure.json at path.
TextAt(path) == IF path = CachePath THEN cacheText ELSE srcText

\* What the call c returns when it runs with no other call beside it.
Alone(c) ==
  LET r == get_structure(fs, gitignore, gitignoreReadable,
                         gitignoreFailsAfter,
                         TextAt(JoinPath(ResolvePath(c.root),
                                         N_project_structure_json)),
                         cacheMode, rootWritable, c.root, c.follow, c.force,
                         c.write, "ok")
  IN  [ outcome |-> r.outcome, result |-> r.result ]

\* The thread t ends its call.
Ended(rec, outcome, exc, result) ==
  [ rec EXCEPT !.pc = "done", !.outcome = outcome, !.exc = exc,
               !.result = result ]

\* Lines 127-147: the thread enters get_structure, reads .gitignore into
\* its ignore_set and assigns the module-level root_path.
Enter(t, c) ==
  /\ th[t].pc = "idle"
  /\ th' = [ th EXCEPT ![t] =
               [ @ EXCEPT !.pc = "check", !.root = c.root,
                          !.follow = c.follow, !.force = c.force,
                          !.write = c.write,
                          !.ignore_set =
                             ReadGitignore(fs, gitignore, gitignoreReadable,
                                           gitignoreFailsAfter, c.root,
                                           c.follow).set,
                          !.alone = Alone(c) ] ]
  /\ root_path' = ResolvePath(c.root)
  /\ UNCHANGED << fs, gitignore, gitignoreReadable, gitignoreFailsAfter,
                  cacheText, cacheMode, rootWritable, diskFull, last, prev,
                  nChanges, srcText, argv, cli, tool,
                  md, written >>

\* Lines 148-149: root_path.is_dir(), on the root_path of this moment.
Validate(t) ==
  /\ th[t].pc = "check"
  /\ th' = [ th EXCEPT ![t] =
               IF RootIsValid(fs, root_path) THEN [ @ EXCEPT !.pc = "cache" ]
               ELSE Ended(@, "raised", "ValueError", << >>) ]
  /\ UNCHANGED << fs, gitignore, gitignoreReadable, gitignoreFailsAfter,
                  cacheText, cacheMode, rootWritable, diskFull, root_path,
                  last, prev, nChanges, srcText, argv, cli, tool,
                  md, written >>

\* Another thread has opened the file at path for writing and has not yet
\* written all of its document.
BeingWritten(t, path) ==
  \E u \in Threads \ { t } : th[u].pc = "write" /\ th[u].out_path = path

\* Lines 151-158: out_path is taken from root_path and the file is loaded
\* in one read.
CacheStep(t) ==
  /\ th[t].pc = "cache"
  /\ \E out \in { JoinPath(root_path, N_project_structure_json) } :
       \E rc \in { ReadCache(fs, TextAt(out), cacheMode, out, th[t].force) } :
         th' = [ th EXCEPT ![t] =
                   IF rc.hit
                   THEN Ended([ @ EXCEPT !.out_path = out, !.hit = TRUE,
                                         !.readDuring = BeingWritten(t, out) ],
                              "returned", "", rc.val)
                   ELSE [ @ EXCEPT !.out_path = out, !.pc = "arg",
                                   !.readDuring =
                                      rc.tried /\ BeingWritten(t, out) ] ]
  /\ UNCHANGED << fs, gitignore, gitignoreReadable, gitignoreFailsAfter,
                  cacheText, cacheMode, rootWritable, diskFull, root_path,
                  last, prev, nChanges, srcText, argv, cli, tool,
                  md, written >>

\* Line 164: the argument of walk_dir is the root_path of this moment.
ArgStep(t) ==
  /\ th[t].pc = "arg"
  /\ th' = [ th EXCEPT ![t] = [ @ EXCEPT !.pc = "walk",
                                         !.walk_root = root_path ] ]
  /\ UNCHANGED << fs, gitignore, gitignoreReadable, gitignoreFailsAfter,
                  cacheText, cacheMode, rootWritable, diskFull, root_path,
                  last, prev, nChanges, srcText, argv, cli, tool,
                  md, written >>

\* Lines 59-102 and 164: the walk, whose relative_to reads root_path again.
\* The walk is one step: the other thread does not run during it.
WalkStep(t) ==
  /\ th[t].pc = "walk"
  /\ \E w \in { walk_dir(fs, root_path, th[t].walk_root,
                          EffectiveIgnore(th[t].ignore_set), 1) } :
       th' = [ th EXCEPT ![t] =
                 IF w.exc # "" THEN Ended(@, "raised", w.exc, << >>)
                 ELSE IF th[t].write
                 THEN [ @ EXCEPT !.pc = "open", !.tree = [ root |-> w.items ] ]
                 ELSE Ended([ @ EXCEPT !.tree = [ root |-> w.items ] ],
                            "returned", "", [ root |-> w.items ]) ]
  /\ UNCHANGED << fs, gitignore, gitignoreReadable, gitignoreFailsAfter,
                  cacheText, cacheMode, rootWritable, diskFull, root_path,
                  last, prev, nChanges, srcText, argv, cli, tool,
                  md, written >>

\* The file at path gets the text new.
SetText(path, new) ==
  /\ cacheText' = IF path = CachePath THEN new ELSE cacheText
  /\ srcText' = IF path = CachePath THEN srcText ELSE new

\* Line 169: open(out_path, "w") creates the file or cuts it to length 0;
\* the thread's file position is 0.
OpenStep(t) ==
  /\ th[t].pc = "open"
  /\ IF CanOpenForWrite(fs, cacheMode, rootWritable, th[t].out_path)
     THEN /\ fs' = fs \cup { [ p |-> th[t].out_path, k |-> "file" ] }
          /\ SetText(th[t].out_path, << >>)
          /\ th' = [ th EXCEPT ![t] =
                       [ @ EXCEPT !.pc = "write", !.off = 0,
                                  !.replaced =
                                     [ existed |-> IsFile(fs, th[t].out_path),
                                       text |-> TextAt(th[t].out_path) ] ] ]
     ELSE /\ th' = [ th EXCEPT ![t] =
                       Ended([ @ EXCEPT !.status = "failed" ],
                             "returned", "", th[t].tree) ]
          /\ UNCHANGED << fs, cacheText, srcText >>
  /\ UNCHANGED << gitignore, gitignoreReadable, gitignoreFailsAfter,
                  cacheMode, rootWritable, diskFull, root_path, last, prev,
                  nChanges, argv, cli, tool, md, written >>

\* A file of the text old after chunk is written at position off of it:
\* the tokens under the chunk are replaced, those behind it stay, and a gap
\* before it reads as zero bytes.
Overlay(old, off, chunk) ==
  LET base == IF Len(old) >= off THEN old
              ELSE old \o [ i \in 1..(off - Len(old)) |-> Punct("NUL") ]
  IN  SubSeq(base, 1, off) \o chunk
        \o SubSeq(base, off + Len(chunk) + 1, Len(base))

\* Lines 170-174: a write call puts tokens of the document at the thread's
\* own file position.  json.dump's output reaches the file when the buffer
\* is flushed: all of it at close, or a first part before (partial) and
\* the rest at close; after the last write the call returns.
WriteStep(t, partial) ==
  /\ th[t].pc = "write"
  /\ \E doc \in { Dumps(th[t].tree) } :
       /\ partial => th[t].off = 0 /\ Len(doc) > 1
       /\ \E n \in { IF partial THEN Len(doc) \div 2
                      ELSE Len(doc) - th[t].off } :
            /\ SetText(th[t].out_path,
                       Overlay(TextAt(th[t].out_path), th[t].off,
                               SubSeq(doc, th[t].off + 1, th[t].off + n)))
            /\ th' = [ th EXCEPT ![t] =
                         IF partial THEN [ @ EXCEPT !.off = n ]
                         ELSE Ended([ @ EXCEPT !.off = Len(doc),
                                               !.status = "written" ],
                                    "returned", "", th[t].tree) ]
  /\ UNCHANGED << fs, gitignore, gitignoreReadable, gitignoreFailsAfter,
                  cacheMode, rootWritable, diskFull, root_path, last, prev,
                  nChanges, argv, cli, tool, md, written >>

NextThreads ==
  \/ \E t \in Threads, c \in ThreadCalls : Enter(t, c)
  \/ \E t \in Threads : Validate(t)
  \/ \E t \in Threads : CacheStep(t)
  \/ \E t \in Threads : ArgStep(t)
  \/ \E t \in Threads : WalkStep(t)
  \/ \E t \in Threads : OpenStep(t)
  \/ \E t \in Threads, partial \in BOOLEAN : WriteStep(t, partial)

SpecThreads == InitThreads /\ [][NextThreads]_vars

(***************************************************************************)
(* parse_args: the command line of generate_tree.py.  The parser knows two *)
(* options, -h/--help (added by ArgumentParser) and -r/--root with one     *)
(* value, and no positional argument.                                      *)
(***************************************************************************)
\* The longest command line tried.
MaxArgs == 3

S_r == << "-", "r" >>
S_root == << "-", "-", "r", "o", "o", "t" >>
S_h == << "-", "h" >>
S_help == << "-", "-", "h", "e", "l", "p" >>
S_dashdash == << "-", "-" >>
S_slash_proj == << "/" >> \o N_proj

\* The words a command line is made of.
ArgWords ==
  { S_r, S_root, << "-", "-", "r", "o" >>, S_h, S_dashdash, S_slash_proj,
    << >>, << "-", "x" >>, S_root \o << "=" >> \o S_slash_proj,
    S_r \o S_slash_proj }

\* Python's None.
PyNone == [ py |-> "None" ]

\* The position of the first c in the string s, 0 when there is none.
Find(s, c) ==
  IF \E i \in 1..Len(s) : s[i] = c
  THEN CHOOSE i \in 1..Len(s) : s[i] = c /\ \A j \in 1..(i - 1) : s[j] # c
  ELSE 0

\* The part of a word before its first "=", the whole word without one.
BeforeEq(w) == IF Find(w, "=") = 0 THEN w ELSE SubSeq(w, 1, Find(w, "=") - 1)

\* The part of a word behind its first "=".
AfterEq(w) == SubSeq(w, Find(w, "=") + 1, Len(w))

\* argparse's reading of one word (_parse_optional): "A" for an argument,
\* "O" for an option, with the option it names ("" for an unknown one)
\* and the value written in the same word (PyNone without one).
ParseOptional(w) ==
  LET arg == [ c |-> "A", opt |-> "", explicit |-> PyNone ]
      option(o, e) == [ c |-> "O", opt |-> o, explicit |-> e ]
      long == { o \in { S_root, S_help } : StartsWith(o, BeforeEq(w)) }
  IN  IF w = << >> THEN arg
      ELSE IF w[1] # "-" THEN arg
      ELSE IF w \in { S_r, S_root } THEN option("root", PyNone)
      ELSE IF w \in { S_h, S_help } THEN option("help", PyNone)
      ELSE IF Len(w) = 1 THEN arg
      ELSE IF Find(w, "=") # 0 /\ BeforeEq(w) \in { S_r, S_root }
      THEN option("root", AfterEq(w))
      ELSE IF Find(w, "=") # 0 /\ BeforeEq(w) \in { S_h, S_help }
      THEN option("help", AfterEq(w))
      ELSE IF w[2] = "-" /\ long = { S_root }
      THEN option("root", IF Find(w, "=") = 0 THEN PyNone ELSE AfterEq(w))
      ELSE IF w[2] = "-" /\ long = { S_help }
      THEN option("help", IF Find(w, "=") = 0 THEN PyNone ELSE AfterEq(w))
      ELSE IF w[2] # "-" /\ SubSeq(w, 1, 2) = S_r
      THEN option("root", SubSeq(w, 3, Len(w)))
      ELSE IF w[2] # "-" /\ SubSeq(w, 1, 2) = S_h
      THEN option("help", SubSeq(w, 3, Len(w)))
      ELSE IF Find(w, " ") # 0 THEN arg
      ELSE option("", PyNone)

CliReturned(root) ==
  [ kind |-> "returned", root |-> root, status |-> 0, usage |-> FALSE ]

CliExit(status) ==
  [ kind |-> "exit", root |-> PyNone, status |-> status, usage |-> TRUE ]

\* parser.parse_args() from the word at position i on, with the value of
\* root so far and whether a word was left over.  The words are taken from
\* left to right: -h prints the help and exits with 0; -r/--root takes its
\* value from its own word or from the next word, which must be an
\* argument; a word "--" makes all words behind it arguments.  Words left
\* over at the end are an error (exit status 2).
RECURSIVE ParseFrom(_, _, _, _)
ParseFrom(words, i, root, extras) ==
  IF i > Len(words)
  THEN IF extras THEN CliExit(2) ELSE CliReturned(root)
  ELSE IF words[i] = S_dashdash THEN CliExit(2)
  ELSE
    LET o == ParseOptional(words[i])
    IN  IF o.c = "A" \/ o.opt = "" THEN ParseFrom(words, i + 1, root, TRUE)
        ELSE IF o.opt = "help"
        THEN IF o.explicit = PyNone THEN CliExit(0) ELSE CliExit(2)
        ELSE IF o.explicit # PyNone
        THEN ParseFrom(words, i + 1, o.explicit, extras)
        ELSE IF /\ i < Len(words) /\ words[i + 1] # S_dashdash
                /\ ParseOptional(words[i + 1]).c = "A"
        THEN ParseFrom(words, i + 2, words[i + 1], extras)
        ELSE CliExit(2)

\* parse_args without the test of lines 50-52.
parse_args_NoUsageExit(words) == ParseFrom(words, 1, PyNone, FALSE)

\* Lines 39-54.  Without any word the help is printed and the exit status
\* is 1.
parse_args(words) ==
  IF Len(words) = 0 THEN CliExit(1) ELSE ParseFrom(words, 1, PyNone, FALSE)

\* The command lines of at most n words.
RECURSIVE CommandLines(_)
CommandLines(n) ==
  IF n = 0 THEN { << >> }
  ELSE CommandLines(n - 1) \cup
       { Append(l, w) : l \in { x \in CommandLines(n - 1) : Len(x) = n - 1 },
                        w \in ArgWords }

\* The script is started with a command line; parse_args runs once in a
\* run of the script.
RunCli(words) ==
  /\ cli = NotRun
  /\ argv' = words
  /\ cli' = parse_args(words)
  /\ UNCHANGED << fs, gitignore, gitignoreReadable, gitignoreFailsAfter,
                  cacheText, cacheMode, rootWritable, diskFull, root_path,
                  last, prev, nChanges, th, srcText, tool, md,
                  written >>

NextCli == \E words \in CommandLines(MaxArgs) : RunCli(words)

SpecCli == Init /\ [][NextCli]_vars

(***************************************************************************)
(* get_structure_tool (main.py and main_init_proj_review.py): the wrapper  *)
(* the agents call.  A text is a sequence of pieces, each one or more      *)
(* characters.                                                             *)
(***************************************************************************)
S_dot == << "." >>
S_dot_slash == << ".", "/" >>

\* A Python str as an argument; None is PyNone.
PyStr(s) == [ py |-> "str", s |-> s ]

\* The arguments the agents pass.
ToolArgs ==
  { PyNone } \cup
  { PyStr(s) : s \in
      { << >>, S_dot, S_dot_slash, S_slash_proj, S_slash_proj \o << "/" >>,
        << "/" >> \o N_lnk, << "/" >> \o N_nowhere,
        S_slash_proj \o << "/" >> \o N_README_md } }

\* "not root or root in ('.', './')" of line 74.
NoExplicitPath(root) ==
  \/ root = PyNone
  \/ root.py = "str" /\ root.s \in { << >>, S_dot, S_dot_slash }

\* Path(root) for a root that starts with "/": the names between the
\* slashes.
PathOf(root) == SelectSeq(Split(root, "/"), LAMBDA n : n # << >>)

\* Lines 74-82: the answer to a call without a project path.
ExplicitPathMessage ==
  << "get_structure tool requires an explicit project path. ",
     "Call it with the project's absolute path ",
     "(e.g. inputs['project_path'])" >>

\* str(e) for the exceptions get_structure raises.  The path the operating
\* system names in its message is left out.
ExcMessage(exc, root) ==
  IF exc = "ValueError"
  THEN << "'" >> \o root \o << "' is not a directory or does not exist." >>
  ELSE IF exc = "PermissionError" THEN << "[Errno 13] Permission denied" >>
  ELSE IF exc = "RecursionError" THEN << "maximum recursion depth exceeded" >>
  ELSE << exc >>

\* json.dumps({"error": msg}, ensure_ascii=False)
ErrorObject(msg) ==
  << Punct("{"), KeyTok("error"), Punct(":"), StrTok(msg), Punct("}") >>

\* What a call of the tool that did not call get_structure leaves.
ToolEarly(fsys, text, rp, out) ==
  [ outcome |-> "returned", exc |-> "", json |-> out, called |-> FALSE,
    inner |-> NoCall, fs |-> fsys, text |-> text, root_path |-> rp ]

\* What a call of the tool leaves after get_structure ended as r.
ToolAfter(r, outcome, exc, out) ==
  [ outcome |-> outcome, exc |-> exc, json |-> out, called |-> TRUE,
    inner |-> r, fs |-> r.fs, text |-> r.text, root_path |-> r.root_path ]

\* get_structure_tool without the try of lines 84-88.
get_structure_tool_NoTry(fsys, lines, readable, failsAfter, text, mode, rootW, rp, root, disk) ==
  IF NoExplicitPath(root)
  THEN ToolEarly(fsys, text, rp, ErrorObject(ExplicitPathMessage))
  ELSE
    LET r == get_structure(fsys, lines, readable, failsAfter, text, mode,
                           rootW, PathOf(root.s), TRUE, TRUE, TRUE, disk)
    IN  IF r.outcome = "raised"
        THEN ToolAfter(r, "raised", r.exc, << >>)
        ELSE ToolAfter(r, "returned", "", Dumps(r.result))

\* Lines 64-88.  rp is the module's root_path before the call.
get_structure_tool(fsys, lines, readable, failsAfter, text, mode, rootW, rp, root, disk) ==
  IF NoExplicitPath(root)
  THEN ToolEarly(fsys, text, rp, ErrorObject(ExplicitPathMessage))
  ELSE
    LET r == get_structure(fsys, lines, readable, failsAfter, text, mode,
                           rootW, PathOf(root.s), TRUE, TRUE, TRUE, disk)
    IN  IF r.outcome = "raised"
        THEN ToolAfter(r, "returned", "",
                       ErrorObject(ExcMessage(r.exc, root.s)))
        ELSE ToolAfter(r, "returned", "", Dumps(r.result))

\* An agent calls the tool.
ToolCall(root) ==
  /\ \E r \in { get_structure_tool(fs, gitignore, gitignoreReadable,
                                    gitignoreFailsAfter, cacheText,
                                    cacheMode, rootWritable, root_path,
                                    root, IF diskFull THEN "full" ELSE "ok") } :
         /\ fs' = r.fs
         /\ cacheText' = r.text
         /\ root_path' = r.root_path
         /\ tool' = [ called |-> TRUE, root |-> root, outcome |-> r.outcome,
                      exc |-> r.exc, json |-> r.json, inner |-> r.inner,
                      ranInner |-> r.called,
                      fsBefore |-> fs, textBefore |-> cacheText,
                      fsAfter |-> r.fs, textAfter |-> r.text ]
  /\ UNCHANGED << gitignore, gitignoreReadable, gitignoreFailsAfter,
                  cacheMode, rootWritable, diskFull, last, prev, nChanges,
                  th, srcText, argv, cli, md, written >>

NextTool ==
  \/ \E root \in ToolArgs : ToolCall(root)
  \/ \E l \in LinkMenu : Symlink(l)
  \/ \E path \in DirPaths : ChmodDir(path)
  \/ ChmodRoot
  \/ DiskChange

SpecTool == Init /\ [][NextTool]_vars

(***************************************************************************)
(* AdaptiveMarkdownWriter._run (requirement_interview) on a POSIX system.  *)
(* written holds the files the tool has opened for writing, each a record  *)
(* [p |-> absolute path, text |-> content].  The output directory holds no *)
(* symbolic link.                                                          *)
(***************************************************************************)
\* The most files the tool leaves behind.
MaxSpecs == 2

\* Path(__file__).resolve().parent.parent / "output_specs"
OutDir ==
  << << "teams" >>, << "requirement_interview" >>, << "output_specs" >> >>

\* A Python list of n items and a dict.
PyList(n) == [ py |-> "list", n |-> n ]
PyDict(d) == [ py |-> "dict", d |-> d ]

S_x == << "x" >>
S_md == << ".", "m", "d" >>

\* {"filename":"../x","content":"x"}
J_both ==
  << "{", "\"", "f", "i", "l", "e", "n", "a", "m", "e", "\"", ":", "\"", ".",
     ".", "/", "x", "\"", ",", "\"", "c", "o", "n", "t", "e", "n", "t",
     "\"", ":", "\"", "x", "\"", "}" >>

\* {"filename":"x","content":["x"]}
J_list_content ==
  << "{", "\"", "f", "i", "l", "e", "n", "a", "m", "e", "\"", ":", "\"", "x",
     "\"", ",", "\"", "c", "o", "n", "t", "e", "n", "t", "\"", ":", "[",
     "\"", "x", "\"", "]", "}" >>

\* {"filename":["x"],"content":"x"}
J_list_name ==
  << "{", "\"", "f", "i", "l", "e", "n", "a", "m", "e", "\"", ":", "[", "\"",
     "x", "\"", "]", ",", "\"", "c", "o", "n", "t", "e", "n", "t", "\"",
     ":", "\"", "x", "\"", "}" >>

\* {"name":"x"}
J_other_key ==
  << "{", "\"", "n", "a", "m", "e", "\"", ":", "\"", "x", "\"", "}" >>

\* []
J_array ==
  << "[", "]" >>

\* json.loads on the texts above; it raises on every other text of MdNames.
JsonLoads(text) ==
  IF text = J_both
  THEN PyDict([ k \in { "filename", "content" } |->
           IF k = "filename" THEN PyStr(<< ".", ".", "/", "x" >>)
           ELSE PyStr(S_x) ])
  ELSE IF text = J_list_content
  THEN PyDict([ k \in { "filename", "content" } |->
           IF k = "filename" THEN PyStr(S_x) ELSE PyList(1) ])
  ELSE IF text = J_list_name
  THEN PyDict([ k \in { "filename", "content" } |->
           IF k = "filename" THEN PyList(1) ELSE PyStr(S_x) ])
  ELSE IF text = J_other_key
  THEN PyDict([ k \in { "name" } |-> PyStr(S_x) ])
  ELSE IF text = J_array
  THEN PyList(0)
  ELSE [ py |-> "raised" ]

\* The file names the agent chooses.
MdNames ==
  { << >>, S_x, << ".", ".", "/", ".", ".", "/", "x" >>,
    << "/", "e", "t", "c", "/", "p", "a", "s", "s", "w", "d" >>,
    << "A", " ", "b", ".", "M", "D" >>, << "x", "/" >>, << ".", "." >>,
    << "x", ".", "m", "d" >>, << "d", "/", "x", " ", "y" >>,
    J_both, J_list_content, J_list_name, J_other_key, J_array }

\* The first arguments: a str, None, a list and a dict.
MdFilenames ==
  { PyStr(n) : n \in MdNames } \cup
  { PyNone, PyList(1), PyDict([ k \in { "filename" } |-> PyStr(S_x) ]) }

\* The second arguments.
MdContents == { PyNone, PyStr(<< >>), PyStr(<< "#", " ", "T" >>), PyList(1) }

\* "not v" for the values above.
Falsy(v) ==
  \/ v = PyNone
  \/ v.py = "str" /\ v.s = << >>
  \/ v.py = "list" /\ v.n = 0
  \/ v.py = "dict" /\ DOMAIN v.d = {}

\* dict.get
DictGet(d, key) == IF key \in DOMAIN d THEN d[key] ELSE PyNone

\* os.path.basename of posixpath: what follows the last "/".
Basename(name) == SubSeq(name, RFind(name, "/") + 1, Len(name))

\* str.replace(" ", "_")
RECURSIVE ReplaceSpaces(_)
ReplaceSpaces(name) ==
  IF name = << >> THEN << >>
  ELSE << IF name[1] = " " THEN "_" ELSE name[1] >> \o ReplaceSpaces(Tail(name))

\* Lines 55-57 without the call of os.path.basename.
SafeName_KeepDirectories(fname) ==
  LET n == Lower(ReplaceSpaces(fname))
  IN  IF EndsWith(n, S_md) THEN n ELSE n \o S_md

\* Lines 55-57.
SafeName(fname) ==
  LET n == Lower(ReplaceSpaces(Basename(fname)))
  IN  IF EndsWith(n, S_md) THEN n ELSE n \o S_md

\* Path.resolve where no name is a symbolic link: "." is dropped and ".."
\* takes the name before it away.
RECURSIVE ResolveNames(_, _)
ResolveNames(done, rest) ==
  IF rest = << >> THEN done
  ELSE IF rest[1] = << "." >> THEN ResolveNames(done, Tail(rest))
  ELSE IF rest[1] = << ".", "." >>
  THEN ResolveNames(Parent(done), Tail(rest))
  ELSE ResolveNames(Append(done, rest[1]), Tail(rest))

\* (out_dir / safe_name).resolve() of line 68: a name that starts with "/"
\* replaces the directory.
TargetPath(safe_name) ==
  ResolveNames(IF StartsWith(safe_name, << "/" >>) THEN << >> ELSE OutDir,
               PathOf(safe_name))

\* The strings _run returns.
ErrExpected ==
  << "Error", ": expected either (filename, content) or a JSON string with ",
     "'filename' and 'content'." >>
ErrInvalid == << "Error", ": invalid filename provided." >>
ErrSaving(msg) == << "Error", " saving file: ", msg >>
Saved(path) ==
  << "Successfully saved markdown to " >>
  \o Join([ i \in 1..Len(path) |-> << "/" >> \o path[i] ], << >>)

\* The files with the one at path holding text.
WithFile(files, path, text) ==
  { f \in files : f.p # path } \cup { [ p |-> path, text |-> text ] }

\* How a call ended that opened no file.
MdRefused(files, ret) ==
  [ ret |-> ret, opened |-> FALSE, path |-> << >>, files |-> files ]

\* Lines 51-81, with the file name and the content lines 34-49 chose.
\* open(abs_path, "w") leaves the file empty; f.write raises TypeError for a
\* content that is no str and OSError when the device is full.
WriteMarkdown(files, fname, content, disk) ==
  IF Falsy(fname) \/ fname.py # "str" THEN MdRefused(files, ErrInvalid)
  ELSE
    LET path == TargetPath(SafeName(fname.s))
        data == IF Falsy(content) THEN PyStr(<< >>) ELSE content
    IN  IF data.py # "str"
        THEN [ ret |-> ErrSaving("write() argument must be str, not list"),
               opened |-> TRUE, path |-> path,
               files |-> WithFile(files, path, << >>) ]
        ELSE IF disk = "full" /\ data.s # << >>
        THEN [ ret |-> ErrSaving("[Errno 28] No space left on device"),
               opened |-> TRUE, path |-> path,
               files |-> WithFile(files, path, << >>) ]
        ELSE [ ret |-> Saved(path), opened |-> TRUE, path |-> path,
               files |-> WithFile(files, path, data.s) ]

\* Lines 32-81.  With content None the first argument is read as JSON when
\* it is a str and taken as it is otherwise; json.loads raises on a str
\* that is no JSON text, and .get on a value that is no dict.
_run(files, filename, content, disk) ==
  IF content = PyNone
  THEN LET parsed == IF filename.py = "str" THEN JsonLoads(filename.s)
                     ELSE filename
       IN  IF parsed.py # "dict" THEN MdRefused(files, ErrExpected)
           ELSE WriteMarkdown(files, DictGet(parsed.d, "filename"),
                              DictGet(parsed.d, "content"), disk)
  ELSE WriteMarkdown(files, filename, content, disk)

\* An agent calls the tool.
MdCall(filename, content) ==
  /\ \E r \in { _run(written, filename, content,
                     IF diskFull THEN "full" ELSE "ok") } :
       /\ Cardinality(r.files) <= MaxSpecs
       /\ written' = r.files
       /\ md' = [ called |-> TRUE, filename |-> filename,
                  content |-> content, outcome |-> "returned",
                  ret |-> r.ret, opened |-> r.opened, path |-> r.path,
                  before |-> written ]
  /\ UNCHANGED << fs, gitignore, gitignoreReadable, gitignoreFailsAfter,
                  cacheText, cacheMode, rootWritable, diskFull, root_path,
                  last, prev, nChanges, th, srcText, argv, cli, tool >>

NextMd ==
  \/ \E filename \in MdFilenames, content \in MdContents :
       MdCall(filename, content)
  \/ DiskChange

SpecMd == Init /\ [][NextMd]_vars

\* C21: a call on a root that is an existing directory never raises,
\* whatever fails on the way.
C21_OnlyRootValidationRaises ==
  (last.called /\ RootIsValid(last.fsBefore, last.root)) =>
    last.outcome = "returned"

\* The project holds regular files, directories that can be listed and
\* symbolic links only.
PlainEntries(fsys) == \A e \in fsys : e.k \in { "file", "dir", "link" }

\* C26: on a root that is an existing directory over files, directories and
\* symbolic links, links to an ancestor included, a call ends by returning.
C26_TerminatesByReturning ==
  (/\ last.called
   /\ RootIsValid(last.fsBefore, last.root)
   /\ PlainEntries(last.fsBefore)) =>
    last.outcome = "returned"

\* The number of nodes of a list of nodes, at any depth, whose path has the
\* segments segs.
RECURSIVE CountNodes(_, _)
CountNodes(items, segs) ==
  IF items = << >> THEN 0
  ELSE (IF Segments(Head(items)) = segs THEN 1 ELSE 0)
       + (IF Head(items).type = T_dir
          THEN CountNodes(Head(items).children, segs) ELSE 0)
       + CountNodes(Tail(items), segs)

\* The lists a node with the segments segs belongs in: the root list, or
\* the children of the node of its parent directory.
ListsFor(tree, segs) ==
  IF Len(segs) = 1 THEN { tree.root }
  ELSE { n.children :
           n \in { m \in NodesOf(tree.root) :
                     m.type = T_dir /\ Segments(m) = Parent(segs) } }

LocatedInParent(tree, segs) ==
  \E list \in ListsFor(tree, segs) :
    \E i \in 1..Len(list) : Segments(list[i]) = segs

\* The entry e is kept by the scan of the call c: no name on its path is in
\* the ignore set, and it is not a file with the extension ".pyc".
Retained(c, e) ==
  /\ NoNameIgnored(c, e)
  /\ ~(~IsDir(c.fsBefore, e.p) /\ Suffix(PathName(e.p)) = Ext_pyc)

\* C27: in a fresh scan every retained entry of the project is exactly one
\* node, found in the children of the node of its parent directory, or in
\* the root list for a top-level entry.
C27_Completeness ==
  Fresh(last) =>
    \A e \in last.fsBefore :
      Retained(last, e) =>
        /\ CountNodes(last.result.root, RelativeNames(last, e)) = 1
        /\ LocatedInParent(last.result, RelativeNames(last, e))

\* A scan of a project with a symbolic link that lists .gitignore,
\* project_structure.json and a file two levels down, and leaves out an
\* ignored directory.
C27_Witness ==
  /\ Fresh(last)
  /\ \E e \in last.fsBefore : e.k = "link"
  /\ Entry(<< N_gitignore >>, "file") \in last.fsBefore
  /\ Entry(<< N_project_structure_json >>, "file") \in last.fsBefore
  /\ Entry(<< N_src, N_main_py >>, "file") \in last.fsBefore
  /\ Entry(<< N_git >>, "dir") \in last.fsBefore
  /\ CountNodes(last.result.root, << N_gitignore >>) = 1
  /\ CountNodes(last.result.root, << N_project_structure_json >>) = 1
  /\ CountNodes(last.result.root, << N_src, N_main_py >>) = 1
  /\ CountNodes(last.result.root, << N_git >>) = 0

\* The threads t and u both made a call, on different directories.
DifferentRoots(t, u) ==
  /\ t # u /\ th[t].pc # "idle" /\ th[u].pc # "idle"
  /\ ResolvePath(th[t].root) # ResolvePath(th[u].root)

\* C22: a call that ran beside a call on another root ends as it ends when
\* run alone, with the same result.
C22_DifferentRootsIsolated ==
  \A t \in Threads, u \in Threads :
    (DifferentRoots(t, u) /\ th[t].pc = "done") =>
      /\ th[t].outcome = th[t].alone.outcome
      /\ th[t].result = th[t].alone.result

\* The thread t called with force_regenerate = false and read the file
\* while the thread u, in a scan of the same root, had opened it for
\* writing and not yet written all of its document.
ReaderAndWriter(t, u) ==
  /\ t # u /\ th[t].pc = "done" /\ ~th[t].force /\ th[t].readDuring
  /\ th[u].replaced # << >> /\ th[u].out_path = th[t].out_path
  /\ ResolvePath(th[t].root) = ResolvePath(th[u].root)

\* The complete documents the file of the writer u has held: the one its
\* open replaced, when there was one, and the one it writes.
CompleteResults(u) ==
  { th[u].tree } \cup
  (IF th[u].replaced.existed /\ Loads(th[u].replaced.text).ok
   THEN { Loads(th[u].replaced.text).val } ELSE {})

TwoWriters ==
  /\ \A t \in Threads :
       /\ th[t].pc = "done" /\ th[t].force /\ th[t].write
       /\ th[t].status = "written"
       /\ ResolvePath(th[t].root) = ProjPath
       /\ th[t].out_path = CachePath

\* C24: after two racing scans of one root have returned, the file holds
\* the complete document of one of them.
C24_LastWriterWins ==
  TwoWriters => \E t \in Threads : cacheText = Dumps(th[t].tree)

\* C25: without any word parse_args prints the usage and exits with a
\* status other than 0; when it returns, root is a value given on the
\* command line, never None.
C25_RootRequired ==
  cli # NotRun =>
    /\ argv = << >> => cli.kind = "exit" /\ cli.status # 0 /\ cli.usage
    /\ cli.kind = "returned" =>
         /\ cli.root # PyNone
         /\ \E i \in 1..Len(argv) :
              /\ \/ ParseOptional(argv[i]).c = "A"
                 \/ ParseOptional(argv[i]).opt = "root"
              /\ EndsWith(argv[i], cli.root)

\* parse_args returned the value given behind --root.
C25_Witness ==
  /\ argv = << S_root, S_slash_proj >>
  /\ cli.kind = "returned" /\ cli.root = S_slash_proj

\* The tool was called without a project path.
NoProjectPath ==
  \/ tool.root = PyNone
  \/ tool.root \in { PyStr(<< >>), PyStr(<< "." >>), PyStr(<< ".", "/" >>) }

\* C28: get_structure_tool never raises and returns a JSON document; for
\* None, "", "." and "./" it is an object with the key error, made without
\* a call of get_structure and without reading or writing a file; when
\* get_structure raises it is an object whose key error carries the
\* message; otherwise it is the serialization of the Scan Result.
C28_ToolNeverRaises ==
  tool.called =>
    /\ tool.outcome = "returned"
    /\ Loads(tool.json).ok
    /\ NoProjectPath =>
         /\ ~tool.ranInner
         /\ DOMAIN Loads(tool.json).val = { "error" }
         /\ tool.fsAfter = tool.fsBefore /\ tool.textAfter = tool.textBefore
    /\ ~NoProjectPath =>
         /\ tool.ranInner
         /\ tool.inner.outcome = "raised" =>
              Loads(tool.json).val =
                [ k \in { "error" } |-> ExcMessage(tool.inner.exc, tool.root.s) ]
         /\ tool.inner.outcome = "returned" =>
              /\ IsScanResult(tool.inner.result)
              /\ tool.json = Dumps(tool.inner.result)
              /\ Loads(tool.json).val = tool.inner.result

\* The tool answered a walk that raised PermissionError with an object
\* whose only key is error.
C28_Witness ==
  /\ tool.called /\ tool.ranInner
  /\ tool.inner.outcome = "raised" /\ tool.inner.exc = "PermissionError"
  /\ DOMAIN Loads(tool.json).val = { "error" }

====
